---- MODULE Spec2Model ----
(***************************************************************************)
(* Model of the template pipeline of channel-manager.                      *)
(*                                                                         *)
(* Provisioning engine (src/src/modules/serverBuilder.js): the async       *)
(* function buildServerFromTemplate walks a Template and issues creation   *)
(* calls against a guild.  An async function runs atomically between two   *)
(* awaits, so one action of a run is the synchronous code from the         *)
(* settlement of one awaited call to the issue of the next one.  The       *)
(* platform (the Discord API behind guild.roles.create,                   *)
(* guild.channels.create and channel.permissionOverwrites.create) is the   *)
(* environment: it takes an outstanding call of a run and either applies   *)
(* it to the guild or rejects it.                                          *)
(***************************************************************************)
EXTENDS Integers, Sequences, FiniteSets, TLC

(***************************************************************************)
(* Bounds of the model.                                                    *)
(***************************************************************************)
MaxRoles == 2       \* RoleSpecs of a template that are not the base role
MaxCats == 2        \* CategorySpecs of a template
MaxChans == 2       \* ChannelSpecs of one category
MaxOws == 2         \* ChannelOverwrites of one channel
PairSize == 1       \* roles, and overwrites of a channel, of a template of
                    \* two interleaved runs (one category, one channel)

(***************************************************************************)
(* Program constants.                                                      *)
(***************************************************************************)
NameLimit == 90             \* sanitizeName: trimmed.slice(0, 90)
TopicLimit == 1024          \* ch.topic.slice(0, 1024)
InvalidFormBody == 50035    \* err?.code === 50035

(***************************************************************************)
(* Values.  Identifiers (role refIds, live ids) are pairs <<space, n>>:    *)
(*   <<"everyone", 0>>  the sentinel key 'everyone'                        *)
(*   <<"role", n>>      a refId made by the text parser (role-<ms>-<hex>)  *)
(*   <<g, n>>           a live id of guild g; <<g, 0>> is the id of g and  *)
(*                      of its base role (guild.roles.everyone.id)         *)
(* Names and topics are sequences of characters; an absent, null or empty  *)
(* string is <<>> (all three are falsy in the code).  An optional array is *)
(* <<>> when undefined and <<array>> when present.                         *)
(***************************************************************************)
Guilds == {"G1", "G2"}
Runs == {1, 2}
TargetOf == <<"G1", "G2">>

Sentinel == <<"everyone", 0>>
EveryoneId(g) == <<g, 0>>
NoId == <<"none", 0>>
NoErr == [code |-> 0, errorsTopic |-> FALSE]

Digits == <<"0", "1", "2", "3", "4", "5", "6", "7", "8", "9">>
Min(a, b) == IF a < b THEN a ELSE b

Undefined == <<>>
Some(x) == <<x>>
ArrayIsArray(x) == Len(x) = 1

\* String.prototype.trim on a sequence of characters
RECURSIVE TrimStart(_)
TrimStart(s) == IF s # <<>> /\ Head(s) = " " THEN TrimStart(Tail(s)) ELSE s
RECURSIVE TrimEnd(_)
TrimEnd(s) ==
  IF s # <<>> /\ s[Len(s)] = " " THEN TrimEnd(SubSeq(s, 1, Len(s) - 1)) ELSE s
Trim(s) == TrimEnd(TrimStart(s))
\* String.prototype.slice(0, n)
Slice(s, n) == SubSeq(s, 1, Min(Len(s), n))
\* a || b on strings
OrElse(a, b) == IF a # <<>> THEN a ELSE b

sanitizeName(name) ==
  LET trimmed == Trim(OrElse(name, <<>>))
  IN  IF trimmed = <<>> THEN <<"c", "h", "a", "n", "n", "e", "l">>
      ELSE Slice(trimmed, NameLimit)

ToLowerCase(type) ==
  IF type \in {"Voice", "VOICE"} THEN "voice"
  ELSE IF type \in {"Text", "TEXT"} THEN "text" ELSE type

isVoiceType(type) ==
  IF type \in {"GuildText", "GuildVoice", "GuildCategory"}
  THEN type = "GuildVoice"
  ELSE ToLowerCase(type) = "voice"

\* Permission values of a template are decimal strings or undefined; a
\* decimal string is written as the number it denotes, undefined as -1.
normalizePermValue(val) == IF val = -1 THEN 0 ELSE val

(***************************************************************************)
(* Templates.  A template reaches buildServerFromTemplate from the text    *)
(* parser (parseTextStructure, also behind the OCR path) or from the       *)
(* snapshot extractor (fromGuild).  The parser gives every role a          *)
(* role-<ms>-<hex> refId (two roles parsed in the same millisecond may     *)
(* draw the same one) with isEveryone false, every channel a topic, and a  *)
(* channel either no overwrites or one overwrite for 'everyone'.  The      *)
(* extractor gives every role its live id as refId and flags the base role *)
(* of the source; a channel's overwrites name live role ids of the source, *)
(* possibly of a role that is no longer among the fetched roles.           *)
(***************************************************************************)
RoleName(i) == <<"R", Digits[i + 1]>>
CatName(i) == <<"C", Digits[i + 1]>>
ChanName(i, j) == <<"h", Digits[i + 1], Digits[j + 1]>>
StaleRole(s) == <<s, 99>>

ParsedRole(i, dup) ==
  [refId |-> <<"role", IF dup THEN 1 ELSE i>>, name |-> RoleName(i), color |-> i,
   hoist |-> FALSE, mentionable |-> TRUE, permissions |-> i, isEveryone |-> FALSE]

ExtractedRole(s, n) ==
  [refId |-> <<s, n>>, name |-> IF n = 0 THEN <<"@">> ELSE RoleName(n), color |-> n,
   hoist |-> FALSE, mentionable |-> FALSE, permissions |-> n,
   isEveryone |-> (<<s, n>> = EveryoneId(s))]

\* the j-th element of the pool, read cyclically from offset k
Cyc(pool, k, j) == pool[((k + j - 1) % Len(pool)) + 1]

ChannelOfKind(kind, name, j, ows) ==
  [name |-> name,
   type |-> IF kind = "voice" THEN "voice" ELSE "text",
   topic |-> IF kind = "plain" THEN <<>> ELSE <<"t", Digits[j + 1]>>,
   nsfw |-> (kind = "topic" /\ j > 0 /\ j % 2 = 0),
   slowmode |-> IF kind = "voice" \/ j = 0 THEN 0 ELSE j - 1,
   overwrites |-> ows]

ParsedTemplate(n, dup, nc, nh, k, ow) ==
  [summary |-> "parsed",
   roles |-> [i \in 1..n |-> ParsedRole(i, dup)],
   categories |-> [c \in 1..nc |->
     [name |-> IF c = 2 THEN <<>> ELSE CatName(c),
      channels |-> [j \in 1..nh |->
        ChannelOfKind(Cyc(<<"topic", "voice", "voice">>, k, j), ChanName(c, j), 0,
          IF ow THEN Some(<<[roleRefId |-> Sentinel, allow |-> j, deny |-> 0]>>)
          ELSE Undefined)]]]]

ExtractedTemplate(s, n, nc, nh, k, no) ==
  [summary |-> "copied",
   roles |-> [i \in 1..(n + 1) |-> ExtractedRole(s, i - 1)],
   categories |-> [c \in 1..nc |->
     [name |-> CatName(c),
      channels |-> [j \in 1..nh |->
        ChannelOfKind(Cyc(<<"topic", "voice", "plain">>, k, j), ChanName(c, j), j,
          Some([o \in 1..no |->
            [roleRefId |-> Cyc(<<StaleRole(s), EveryoneId(s), <<s, 1>>>>, k, o),
             allow |-> o, deny |-> j]]))]]]]

TemplatesOfSize(R, C, H, O) ==
  {ParsedTemplate(n, dup, nc, nh, k, ow) :
     n \in R, dup \in BOOLEAN, nc \in C, nh \in H, k \in 0..1, ow \in BOOLEAN}
  \cup
  {ExtractedTemplate(s, n, nc, nh, k, no) :
     s \in Guilds, n \in R, nc \in C, nh \in H, k \in 0..2, no \in O}

Templates == TemplatesOfSize(0..MaxRoles, 0..MaxCats, 0..MaxChans, 0..MaxOws)
PairTemplates == TemplatesOfSize({PairSize}, {1}, {1}, {PairSize})

(***************************************************************************)
(* The template safety validator (src/index.js, ensureTemplateSafe).  It   *)
(* reads the shape of its argument and the lengths of its arrays.  A value *)
(* that is not an object is JsNull; a field that holds something else than *)
(* an array holds NotAnArray(<typeof>); a field an object lacks is not in  *)
(* the DOMAIN of its record.                                               *)
(***************************************************************************)
MAX_CHANNELS == 500
MAX_ROLES == 200

JsNull == [typeof |-> "null"]
NotAnArray(t) == <<[typeof |-> t]>>
\* Array.isArray(v), for the value of a field
IsArray(v) == v = <<>> \/ "typeof" \notin DOMAIN v[1]
Has(o, field) == field \in DOMAIN o

NoValidation == [template |-> JsNull, result |-> "idle"]

TemplateInvalid == "Template is not valid."
TooManyChannels == "Too many channels"
TooManyRoles == "Too many roles"
TypeError == "TypeError"
Returned == "returned"

\* lines 451-454: channelCount += cat.channels ? cat.channels.length : 0
RECURSIVE CountChannels(_, _, _)
CountChannels(categories, i, channelCount) ==
  IF i > Len(categories) THEN channelCount
  ELSE LET cat == categories[i]
       IN  CountChannels(categories, i + 1,
             channelCount + (IF Has(cat, "channels") THEN Len(cat.channels) ELSE 0))

\* the validator with a ceiling for each category instead of one for the sum
ensureTemplateSafePerCategory(template) ==
  IF template = JsNull \/ ~Has(template, "categories")
     \/ ~IsArray(template.categories)
  THEN TemplateInvalid
  ELSE LET roleCount == IF Has(template, "roles") /\ IsArray(template.roles)
                        THEN Len(template.roles) ELSE 0
       IN  IF \E i \in 1..Len(template.categories) :
                CountChannels(<<template.categories[i]>>, 1, 0) > MAX_CHANNELS
           THEN TooManyChannels
           ELSE IF roleCount > MAX_ROLES THEN TooManyRoles
           ELSE Returned

\* the validator counting before it looks at the shape: `for (const cat of
\* template.categories)` on a template without an array of categories throws
\* a TypeError
ensureTemplateSafeCountFirst(template) ==
  IF template = JsNull \/ ~Has(template, "categories")
     \/ ~IsArray(template.categories)
  THEN TypeError
  ELSE LET channelCount == CountChannels(template.categories, 1, 0)
           roleCount == IF Has(template, "roles") /\ IsArray(template.roles)
                        THEN Len(template.roles) ELSE 0
       IN  IF channelCount > MAX_CHANNELS THEN TooManyChannels
           ELSE IF roleCount > MAX_ROLES THEN TooManyRoles
           ELSE Returned

\* ensureTemplateSafe, lines 447-462: the message of the error it throws, or
\* Returned
ensureTemplateSafe(template) ==
  IF template = JsNull \/ ~Has(template, "categories")
     \/ ~IsArray(template.categories)
  THEN TemplateInvalid
  ELSE LET channelCount == CountChannels(template.categories, 1, 0)
           roleCount == IF Has(template, "roles") /\ IsArray(template.roles)
                        THEN Len(template.roles) ELSE 0
       IN  IF channelCount > MAX_CHANNELS THEN TooManyChannels
           ELSE IF roleCount > MAX_ROLES THEN TooManyRoles
           ELSE Returned

(***************************************************************************)
(* Arguments of the validator: what is not a template at all, and          *)
(* templates of given sizes, the channels spread over the categories in    *)
(* several ways, with totals and role counts around the two ceilings.      *)
(***************************************************************************)
Margin == 2         \* channel totals and role counts this far around the ceilings
MaxLines == 3       \* lines of a text handed to the parser
MaxNow == 1         \* milliseconds the clock advances while the parser is watched
HexValues == 2      \* values of Math.random().toString(16).slice(2, 6)
MaxDeletes == 3     \* channels of the guild a bulk delete is asked for
MaxEvents == 3      \* file events the watcher reports to the change logger
MaxPerms == 3       \* entries of a list handed to permissionsToBitfield

\* Number.prototype.toString on a non-negative integer
RECURSIVE DecimalString(_)
DecimalString(n) ==
  IF n < 10 THEN <<Digits[n + 1]>>
  ELSE Append(DecimalString(n \div 10), Digits[(n % 10) + 1])

BulkChannel(j) == ChannelOfKind("voice", <<"h">> \o DecimalString(j), 0, Undefined)
BulkRole(i) ==
  [refId |-> <<"role", i>>, name |-> <<"R">> \o DecimalString(i), color |-> 0,
   hoist |-> FALSE, mentionable |-> TRUE, permissions |-> 0, isEveryone |-> FALSE]

\* a category of n channels; of no `channels` field when n is -1
BulkCategory(c, n) ==
  IF n < 0 THEN [name |-> CatName(c)]
  ELSE [name |-> CatName(c), channels |-> [j \in 1..n |-> BulkChannel(j)]]

\* a template with dist[c] channels in its c-th category and nr roles; of no
\* `roles` field when nr is -1, of a `roles` field that is no array when -2
SizedTemplate(dist, nr) ==
  LET categories == [c \in 1..Len(dist) |-> BulkCategory(c, dist[c])]
  IN  IF nr = -1 THEN [summary |-> "sized", categories |-> categories]
      ELSE [summary |-> "sized", categories |-> categories,
            roles |-> IF nr = -2 THEN NotAnArray("string")
                      ELSE [i \in 1..nr |-> BulkRole(i)]]

Distributions(n) ==
  {<<n>>, <<-1, n>>, <<n, 0>>, <<n \div 2, n - (n \div 2)>>}
  \cup (IF n >= 1 THEN {<<1, -1, n - 1>>} ELSE {<<>>})

ChannelTotals == {0} \cup ((MAX_CHANNELS - Margin)..(MAX_CHANNELS + Margin))
RoleCounts == {-2, -1, 0} \cup ((MAX_ROLES - Margin)..(MAX_ROLES + Margin))

NotTemplates ==
  {JsNull,
   [summary |-> "none"],
   [summary |-> "none", roles |-> [i \in 1..(MAX_ROLES + 1) |-> BulkRole(i)]],
   [summary |-> "none", categories |-> NotAnArray("string")],
   [summary |-> "none", categories |-> NotAnArray("object"),
    roles |-> [i \in 1..(MAX_ROLES + 1) |-> BulkRole(i)]]}

ValidatorInputs ==
  NotTemplates \cup
  {SizedTemplate(dist, nr) :
     dist \in UNION {Distributions(n) : n \in ChannelTotals}, nr \in RoleCounts}

(***************************************************************************)
(* Strings of the text parser (src/src/modules/textParser.js).  A string   *)
(* is the sequence of its characters; the characters that have no ASCII    *)
(* form are written as names: LF, CR, TAB, NBSP (U+00A0), BOM (U+FEFF),    *)
(* ZWSP (U+200B), BOX (a box-drawing vertical bar), ENDASH, EMDASH and     *)
(* EMOJI (a symbol that is neither letter nor digit).                      *)
(***************************************************************************)
UpperCase == <<"A", "B", "C", "D", "E", "F", "G", "H", "I", "J", "K", "L",
    "M", "N", "O", "P", "Q", "R", "S", "T", "U", "V", "W", "X", "Y", "Z">>
LowerCase == <<"a", "b", "c", "d", "e", "f", "g", "h", "i", "j", "k", "l",
    "m", "n", "o", "p", "q", "r", "s", "t", "u", "v", "w", "x", "y", "z">>
Letters == {UpperCase[i] : i \in 1..26} \cup {LowerCase[i] : i \in 1..26}
DigitChars == {Digits[i] : i \in 1..10}
HexChars == <<"0", "1", "2", "3", "4", "5", "6", "7", "8", "9", "a", "b", "c",
    "d", "e", "f">>

\* \s, \w, \p{L}|\p{N} and [0-9a-fA-F] of a JavaScript regular expression
Spaces == {" ", "TAB", "LF", "CR", "NBSP", "BOM"}
IsSpace(c) == c \in Spaces
IsWord(c) == c \in Letters \cup DigitChars \cup {"_"}
LowerOf == [c \in {UpperCase[i] : i \in 1..26} |->
              LowerCase[CHOOSE i \in 1..26 : UpperCase[i] = c]]
ToLower(c) == IF c \in DOMAIN LowerOf THEN LowerOf[c] ELSE c
IsHex(c) == \E i \in 1..16 : HexChars[i] = ToLower(c)
toLowerCase(s) == [i \in 1..Len(s) |-> ToLower(s[i])]

\* a character class of a regular expression: [chars] and [^chars]
Class(chars) == [chars |-> chars, negated |-> FALSE]
NotClass(chars) == [chars |-> chars, negated |-> TRUE]
Matches(c, class) == (c \in class.chars) # class.negated

MinOf(S) == CHOOSE x \in S : \A y \in S : x <= y
MaxOf(S) == 0 - MinOf({0 - x : x \in S})
\* the k-th smallest element of a set of numbers
Nth(S, k) == CHOOSE p \in S : Cardinality({q \in S : q <= p}) = k
\* s without its characters i..j
Cut(s, i, j) == SubSeq(s, 1, i - 1) \o SubSeq(s, j + 1, Len(s))

\* lit (in lower case) stands in s at position i; the /i flag ignores case
StartsAt(s, i, lit) ==
  /\ i >= 1 /\ i + Len(lit) - 1 <= Len(s)
  /\ \A k \in 1..Len(lit) : ToLower(s[i + k - 1]) = lit[k]
\* String.prototype.startsWith
startsWith(s, lit) ==
  Len(lit) <= Len(s) /\ \A k \in 1..Len(lit) : s[k] = lit[k]
\* String.prototype.includes
Includes(s, lit) ==
  \E i \in 1..(Len(s) - Len(lit) + 1) : \A k \in 1..Len(lit) : s[i + k - 1] = lit[k]
\* the first position of s from i on that holds no \s: where \s* ends
SkipSpaces(s, i) ==
  MinOf({j \in i..(Len(s) + 1) : j > Len(s) \/ ~IsSpace(s[j])})
\* the last position of the longest run of class characters that starts at i
RunEnd(s, i, class) ==
  MinOf({j \in i..(Len(s) + 1) : j > Len(s) \/ ~Matches(s[j], class)}) - 1

\* String.prototype.trimEnd, trimStart, trim
RECURSIVE trimEnd(_)
trimEnd(s) ==
  IF s # <<>> /\ IsSpace(s[Len(s)]) THEN trimEnd(SubSeq(s, 1, Len(s) - 1)) ELSE s
RECURSIVE trimStart(_)
trimStart(s) == IF s # <<>> /\ IsSpace(s[1]) THEN trimStart(Tail(s)) ELSE s
trim(s) == trimEnd(trimStart(s))

\* s.replace(/[class]/g, to): every character of the class becomes `to`
ReplaceEach(s, class, to) ==
  [i \in 1..Len(s) |-> IF Matches(s[i], class) THEN to ELSE s[i]]
\* s.replace(/[class]{n,}/g, to): every longest run of at least n characters
\* of the class becomes one `to`
RECURSIVE ReplaceRunsFrom(_, _, _, _, _)
ReplaceRunsFrom(s, i, class, n, to) ==
  IF i > Len(s) THEN <<>>
  ELSE IF ~Matches(s[i], class)
       THEN LET kept == RunEnd(s, i, [class EXCEPT !.negated = ~@])
            IN  SubSeq(s, i, kept) \o ReplaceRunsFrom(s, kept + 1, class, n, to)
       ELSE LET last == RunEnd(s, i, class)
            IN  (IF last - i + 1 >= n THEN <<to>> ELSE SubSeq(s, i, last))
                \o ReplaceRunsFrom(s, last + 1, class, n, to)
ReplaceRuns(s, class, n, to) == ReplaceRunsFrom(s, 1, class, n, to)

\* s.split(delim), delim one character: the pieces between the delimiters
RECURSIVE SplitFrom(_, _, _)
SplitFrom(s, i, delim) ==
  LET next == MinOf({j \in i..(Len(s) + 1) : j > Len(s) \/ s[j] = delim})
  IN  IF next > Len(s) THEN <<SubSeq(s, i, Len(s))>>
      ELSE <<SubSeq(s, i, next - 1)>> \o SplitFrom(s, next + 1, delim)
SplitOn(s, delim) == SplitFrom(s, 1, delim)

\* raw.split(/\r?\n/): a CR right before the LF belongs to the delimiter
SplitLines(raw) ==
  LET pieces == SplitOn(raw, "LF")
  IN  [k \in 1..Len(pieces) |->
         IF k < Len(pieces) /\ pieces[k] # <<>> /\ pieces[k][Len(pieces[k])] = "CR"
         THEN SubSeq(pieces[k], 1, Len(pieces[k]) - 1) ELSE pieces[k]]

\* normalizeLine, lines 493-500
RECURSIVE normalizeLine(_)
normalizeLine(str) ==
  IF str = <<>> THEN <<>>
  ELSE LET c == Head(str)
           folded == IF c \in {"BOM", "ZWSP"} THEN <<>>
                     ELSE IF c = "NBSP" THEN <<" ">>
                     ELSE IF c = "BOX" THEN <<"|">>
                     ELSE IF c \in {"ENDASH", "EMDASH"} THEN <<"-">>
                     ELSE <<c>>
       IN  folded \o normalizeLine(Tail(str))

(***************************************************************************)
(* The regular expressions of the parser.  A match is <<>> when the        *)
(* expression does not match (null) and <<m>> when it does, m giving the   *)
(* first and last position of the leftmost match and what it captured.     *)
(***************************************************************************)
NoMatch == <<>>
\* what a match that starts at i and ends at last captured
MatchAt(line, i, last, from, to) ==
  <<[index |-> i, last |-> last, group |-> SubSeq(line, from, to)]>>

\* /color:\s*#/i
isRoleLine(line) ==
  \E i \in 1..Len(line) :
    /\ StartsAt(line, i, <<"c", "o", "l", "o", "r", ":">>)
    /\ LET j == SkipSpaces(line, i + 6) IN j <= Len(line) /\ line[j] = "#"

\* line.match(/color:\s*(#[0-9a-fA-F]{6})/i)
MatchColor(line) ==
  LET Hash(i) == SkipSpaces(line, i + 6)
      starts == {i \in 1..Len(line) :
                   /\ StartsAt(line, i, <<"c", "o", "l", "o", "r", ":">>)
                   /\ Hash(i) + 6 <= Len(line)
                   /\ line[Hash(i)] = "#"
                   /\ \A k \in 1..6 : IsHex(line[Hash(i) + k])}
      i == MinOf(starts)
  IN  IF starts = {} THEN NoMatch
      ELSE MatchAt(line, i, Hash(i) + 6, Hash(i), Hash(i) + 6)

\* line.match(/permissions:\s*\[([^\]]*)\]/i)
MatchPermissions(line) ==
  LET Open(i) == SkipSpaces(line, i + 12)
      Close(i) == MinOf({j \in (Open(i) + 1)..Len(line) : line[j] = "]"})
      starts == {i \in 1..Len(line) :
                   /\ StartsAt(line, i, <<"p", "e", "r", "m", "i", "s", "s",
                       "i", "o", "n", "s", ":">>)
                   /\ Open(i) <= Len(line)
                   /\ line[Open(i)] = "["
                   /\ \E j \in (Open(i) + 1)..Len(line) : line[j] = "]"}
      i == MinOf(starts)
  IN  IF starts = {} THEN NoMatch
      ELSE MatchAt(line, i, Close(i), Open(i) + 1, Close(i) - 1)

\* /type:\s*voice/i and /type:\s*(text|voice)/i
HasTypeMarker(line, words) ==
  \E i \in 1..Len(line) :
    /\ StartsAt(line, i, <<"t", "y", "p", "e", ":">>)
    /\ \E w \in words : StartsAt(line, SkipSpaces(line, i + 5), w)

\* /\bvoice\b/i
HasVoiceWord(line) ==
  \E i \in 1..Len(line) :
    /\ StartsAt(line, i, <<"v", "o", "i", "c", "e">>)
    /\ i = 1 \/ ~IsWord(line[i - 1])
    /\ i + 5 > Len(line) \/ ~IsWord(line[i + 5])

\* /#\S+/
HasHashToken(line) ==
  \E i \in 1..(Len(line) - 1) : line[i] = "#" /\ ~IsSpace(line[i + 1])

\* normalized.match(/#([\w-]+)/)
MatchHashName(line) ==
  LET NameChar == Class(Letters \cup DigitChars \cup {"_", "-"})
      starts == {i \in 1..(Len(line) - 1) :
                   line[i] = "#" /\ Matches(line[i + 1], NameChar)}
      i == MinOf(starts)
      last == RunEnd(line, i + 1, NameChar)
  IN  IF starts = {} THEN NoMatch ELSE MatchAt(line, i, last, i + 1, last)

\* /\(category\)/i
CategoryMark ==
  <<"(", "c", "a", "t", "e", "g", "o", "r", "y", ")">>
MatchCategoryMark(line) ==
  LET starts == {i \in 1..Len(line) : StartsAt(line, i, CategoryMark)}
      i == MinOf(starts)
  IN  IF starts = {} THEN NoMatch ELSE MatchAt(line, i, i + 9, i, i + 9)

\* isCategoryLine, lines 510-512
isCategoryLine(line) == MatchCategoryMark(line) # NoMatch

\* looksLikeChannel, lines 289-296
looksLikeChannel(line) ==
  LET normalized == normalizeLine(line)
      hasPipe == Includes(normalized, <<"|">>)
      hasHash == HasHashToken(normalized)
      hasType == HasTypeMarker(normalized, {<<"t", "e", "x", "t">>, <<"v",
          "o", "i", "c", "e">>})
      hasVoiceWord == HasVoiceWord(normalized)
  IN  hasPipe \/ hasHash \/ hasType \/ hasVoiceWord

\* extractTopic, lines 502-508: line.match(/-\s+(.+)/), then trim; null and
\* the empty string are both <<>>
extractTopic(line) ==
  LET starts == {i \in 1..(Len(line) - 1) :
                   /\ line[i] = "-" /\ IsSpace(line[i + 1])
                   /\ SkipSpaces(line, i + 1) <= Len(line)}
  IN  IF starts = {} THEN <<>>
      ELSE trim(SubSeq(line, SkipSpaces(line, MinOf(starts) + 1), Len(line)))

\* suggestDescription, lines 345-354
suggestDescription(name, isVoice) ==
  LET key == toLowerCase(name)
  IN  IF Includes(key, <<"w", "e", "l", "c", "o", "m", "e">>) THEN <<"W", "e",
      "l", "c", "o", "m", "e", " ", "c", "h", "a", "n", "n", "e", "l", " ",
      "w", "i", "t", "h", " ", "s", "e", "r", "v", "e", "r", " ", "i", "n",
      "f", "o", ".">>
      ELSE IF Includes(key, <<"r", "u", "l", "e", "s">>) THEN <<"S", "e", "r",
          "v", "e", "r", " ", "r", "u", "l", "e", "s", ".">>
      ELSE IF Includes(key, <<"a", "n", "n", "o", "u", "n", "c",
          "e">>) \/ Includes(key, <<"n", "e", "w", "s">>)
      THEN <<"A", "n", "n", "o", "u", "n", "c", "e", "m", "e", "n", "t", "s",
          ".">>
      ELSE IF Includes(key, <<"c", "h", "a", "t">>) \/ Includes(key, <<"g",
          "e", "n", "e", "r", "a", "l">>)
      THEN <<"G", "e", "n", "e", "r", "a", "l", " ", "c", "h", "a", "t", ".">>
      ELSE IF Includes(key, <<"s", "u", "p", "p", "o", "r", "t">>) THEN <<"S",
          "u", "p", "p", "o", "r", "t", " ", "c", "h", "a", "n", "n", "e",
          "l", ".">>
      ELSE IF isVoice THEN <<"A", " ", "v", "o", "i", "c", "e", " ", "c", "h",
          "a", "n", "n", "e", "l", " ", "f", "o", "r", " ", "t", "a", "l",
          "k", "i", "n", "g", ".">>
      ELSE <<"A", "u", "t", "o", " ", "g", "e", "n", "e", "r", "a", "t", "e",
          "d", " ", "d", "e", "s", "c", "r", "i", "p", "t", "i", "o", "n",
          ".">>

\* cleanCategoryName, lines 331-336
cleanCategoryName(name) ==
  LET line == normalizeLine(name)
      mark == MatchCategoryMark(line)
      normalized == IF mark = NoMatch THEN line
                    ELSE Cut(line, mark[1].index, mark[1].last)
      noEmoji ==
        ReplaceRuns(
          ReplaceEach(normalized,
                      NotClass(Letters \cup DigitChars \cup Spaces \cup {"-"}), " "),
          Class(Spaces), 2, " ")
      clean == trim(noEmoji)
  IN  OrElse(clean, <<"C", "a", "t", "e", "g", "o", "r", "y">>)

\* slugifyPreserve, lines 338-343
slugifyPreserve(str) ==
  IF str = <<>> THEN <<"c", "h", "a", "n", "n", "e", "l">>
  ELSE LET normalized ==
             ReplaceEach(normalizeLine(str),
                         NotClass(Letters \cup DigitChars \cup Spaces \cup {"_", "-"}),
                         " ")
           dashed == ReplaceRuns(ReplaceRuns(normalized, Class(Spaces), 1, "-"),
                                 Class({"-"}), 1, "-")
           solid == {i \in 1..Len(dashed) : dashed[i] # "-"}
           safe == IF solid = {} THEN <<>>
                   ELSE SubSeq(dashed, MinOf(solid), MaxOf(solid))
       IN  OrElse(toLowerCase(safe), <<"c", "h", "a", "n", "n", "e", "l">>)

(***************************************************************************)
(* The permission vocabulary (permissionsToBitfield, lines 389-491): the   *)
(* cases of the switch, each name with the flag it pushes, and the bit of  *)
(* each flag in PermissionsBitField.Flags.  A bitfield is the number its   *)
(* decimal string denotes.                                                 *)
(***************************************************************************)
PermissionNames ==
  <<<<<<"a", "d", "m", "i", "n", "i", "s", "t", "r", "a", "t", "o", "r">>,
      "Administrator">>,
    <<<<"m", "a", "n", "a", "g", "e", " ", "s", "e", "r", "v", "e", "r">>,
        "Administrator">>,
    <<<<"m", "a", "n", "a", "g", "e", " ", "r", "o", "l", "e", "s">>,
        "ManageRoles">>,
    <<<<"m", "a", "n", "a", "g", "e", " ", "c", "h", "a", "n", "n", "e", "l",
        "s">>, "ManageChannels">>,
    <<<<"m", "a", "n", "a", "g", "e", " ", "w", "e", "b", "h", "o", "o", "k",
        "s">>, "ManageWebhooks">>,
    <<<<"m", "a", "n", "a", "g", "e", " ", "e", "m", "o", "j", "i", "s">>,
        "ManageEmojisAndStickers">>,
    <<<<"m", "a", "n", "a", "g", "e", " ", "e", "m", "o", "j", "i", "s", " ",
        "a", "n", "d", " ", "s", "t", "i", "c", "k", "e", "r", "s">>,
        "ManageEmojisAndStickers">>,
    <<<<"b", "a", "n", " ", "m", "e", "m", "b", "e", "r", "s">>,
        "BanMembers">>,
    <<<<"k", "i", "c", "k", " ", "m", "e", "m", "b", "e", "r", "s">>,
        "KickMembers">>,
    <<<<"v", "i", "e", "w", " ", "a", "u", "d", "i", "t", " ", "l", "o",
        "g">>, "ViewAuditLog">>,
    <<<<"m", "a", "n", "a", "g", "e", " ", "m", "e", "s", "s", "a", "g", "e",
        "s">>, "ManageMessages">>,
    <<<<"m", "a", "n", "a", "g", "e", " ", "t", "h", "r", "e", "a", "d",
        "s">>, "ManageThreads">>,
    <<<<"m", "e", "n", "t", "i", "o", "n", " ", "e", "v", "e", "r", "y", "o",
        "n", "e">>, "MentionEveryone">>,
    <<<<"t", "i", "m", "e", "o", "u", "t", " ", "m", "e", "m", "b", "e", "r",
        "s">>, "ModerateMembers">>,
    <<<<"m", "o", "d", "e", "r", "a", "t", "e", " ", "m", "e", "m", "b", "e",
        "r", "s">>, "ModerateMembers">>,
    <<<<"m", "u", "t", "e", " ", "m", "e", "m", "b", "e", "r", "s">>,
        "ModerateMembers">>,
    <<<<"p", "r", "i", "o", "r", "i", "t", "y", " ", "s", "p", "e", "a", "k",
        "e", "r">>, "PrioritySpeaker">>,
    <<<<"s", "e", "n", "d", " ", "m", "e", "s", "s", "a", "g", "e", "s">>,
        "SendMessages">>,
    <<<<"r", "e", "a", "d", " ", "m", "e", "s", "s", "a", "g", "e", " ", "h",
        "i", "s", "t", "o", "r", "y">>, "ReadMessageHistory">>,
    <<<<"v", "i", "e", "w", " ", "c", "h", "a", "n", "n", "e", "l">>,
        "ViewChannel">>,
    <<<<"r", "e", "a", "d", " ", "c", "h", "a", "n", "n", "e", "l", "s">>,
        "ViewChannel">>,
    <<<<"c", "o", "n", "n", "e", "c", "t">>, "Connect">>,
    <<<<"s", "p", "e", "a", "k">>, "Speak">>,
    <<<<"s", "t", "r", "e", "a", "m">>, "Stream">>,
    <<<<"u", "s", "e", " ", "v", "o", "i", "c", "e", " ", "a", "c", "t", "i",
        "v", "i", "t", "y">>, "UseVAD">>,
    <<<<"e", "m", "b", "e", "d", " ", "l", "i", "n", "k", "s">>,
        "EmbedLinks">>,
    <<<<"a", "t", "t", "a", "c", "h", " ", "f", "i", "l", "e", "s">>,
        "AttachFiles">>,
    <<<<"u", "s", "e", " ", "e", "x", "t", "e", "r", "n", "a", "l", " ", "e",
        "m", "o", "j", "i", "s">>, "UseExternalEmojis">>,
    <<<<"u", "s", "e", " ", "e", "x", "t", "e", "r", "n", "a", "l", " ", "s",
        "t", "i", "c", "k", "e", "r", "s">>, "UseExternalStickers">>,
    <<<<"u", "s", "e", " ", "a", "p", "p", "l", "i", "c", "a", "t", "i", "o",
        "n", " ", "c", "o", "m", "m", "a", "n", "d", "s">>,
        "UseApplicationCommands">>,
    <<<<"a", "d", "d", " ", "r", "e", "a", "c", "t", "i", "o", "n", "s">>,
        "AddReactions">>,
    <<<<"m", "a", "n", "a", "g", "e", " ", "e", "v", "e", "n", "t", "s">>,
        "ManageEvents">>,
    <<<<"c", "h", "a", "n", "g", "e", " ", "n", "i", "c", "k", "n", "a", "m",
        "e">>, "ChangeNickname">>,
    <<<<"m", "o", "v", "e", " ", "m", "e", "m", "b", "e", "r", "s">>,
        "MoveMembers">>>>

FlagBit ==
  [KickMembers |-> 1, BanMembers |-> 2, Administrator |-> 3,
      ManageChannels |-> 4, AddReactions |-> 6, ViewAuditLog |-> 7,
      PrioritySpeaker |-> 8, Stream |-> 9, ViewChannel |-> 10,
      SendMessages |-> 11, ManageMessages |-> 13, EmbedLinks |-> 14,
      AttachFiles |-> 15, ReadMessageHistory |-> 16, MentionEveryone |-> 17,
      UseExternalEmojis |-> 18, Connect |-> 20, Speak |-> 21,
      MoveMembers |-> 24, UseVAD |-> 25, ChangeNickname |-> 26,
      ManageRoles |-> 28, ManageWebhooks |-> 29,
      ManageEmojisAndStickers |-> 30, UseApplicationCommands |-> 31,
      ManageEvents |-> 33, ManageThreads |-> 34, UseExternalStickers |-> 37,
      ModerateMembers |-> 40]

RECURSIVE Pow2(_)
Pow2(b) == IF b = 0 THEN 1 ELSE 2 * Pow2(b - 1)
\* the number with exactly the bits of a set of bit places set
RECURSIVE BitfieldSum(_)
BitfieldSum(bits) ==
  IF bits = {} THEN 0
  ELSE LET b == CHOOSE x \in bits : TRUE
       IN  Pow2(b) + BitfieldSum(bits \ {b})
\* a | b on bitfields
RECURSIVE BitOr(_, _)
BitOr(a, b) ==
  IF a = 0 THEN b
  ELSE IF b = 0 THEN a
  ELSE (IF a % 2 = 1 \/ b % 2 = 1 THEN 1 ELSE 0) + 2 * BitOr(a \div 2, b \div 2)

\* p.replace(/\(.*?\)/g, ''): every "(" up to the next ")" goes
RECURSIVE StripParentheses(_)
StripParentheses(p) ==
  LET opens == {i \in 1..Len(p) : p[i] = "(" /\ \E j \in (i + 1)..Len(p) : p[j] = ")"}
  IN  IF opens = {} THEN p
      ELSE LET i == MinOf(opens)
               j == MinOf({k \in (i + 1)..Len(p) : p[k] = ")"})
           IN  SubSeq(p, 1, i - 1) \o StripParentheses(SubSeq(p, j + 1,
               Len(p)))

\* lines 390-489: the flags the loop pushes to `mapped`, one for each entry
\* of perms that is a case of the switch, in the order of perms
RECURSIVE mapped(_)
mapped(perms) ==
  IF perms = <<>> THEN <<>>
  ELSE LET norm == toLowerCase(trim(StripParentheses(Head(perms))))
           cases == {k \in 1..Len(PermissionNames) : PermissionNames[k][1] = norm}
       IN  (IF cases = {} THEN <<>>
            ELSE <<PermissionNames[MinOf(cases)][2]>>) \o mapped(Tail(perms))

\* new PermissionsBitField(flags).bitfield: the bits of the flags, or-ed
RECURSIVE resolve(_)
resolve(flags) ==
  IF flags = <<>> THEN 0
  ELSE BitOr(Pow2(FlagBit[Head(flags)]), resolve(Tail(flags)))

\* permissionsToBitfield with the bits of the pushed flags added up
RECURSIVE SumOfBits(_)
SumOfBits(flags) ==
  IF flags = <<>> THEN 0
  ELSE Pow2(FlagBit[Head(flags)]) + SumOfBits(Tail(flags))
permissionsToBitfieldSum(perms) == SumOfBits(mapped(perms))

\* permissionsToBitfield, lines 389-491, as the number of its bitfield
permissionsToBitfield(perms) == resolve(mapped(perms))

\* extractPermissions, lines 380-387
extractPermissions(line) ==
  LET permMatch == MatchPermissions(line)
  IN  IF permMatch = NoMatch THEN <<>>
      ELSE LET parts == SplitOn(permMatch[1].group, ",")
           IN  SelectSeq([k \in 1..Len(parts) |-> trim(parts[k])],
                         LAMBDA p : p # <<>>)

\* parseInt(hex, 16) of hexadecimal digits
RECURSIVE ParseHex(_)
ParseHex(h) ==
  IF h = <<>> THEN 0
  ELSE 16 * ParseHex(SubSeq(h, 1, Len(h) - 1))
       + (CHOOSE v \in 0..15 : HexChars[v + 1] = ToLower(h[Len(h)]))

\* buildRoleFromLine with `if (!colorMatch) return null` missing: colorMatch[1]
\* of null throws a TypeError
buildRoleFromLineUnguarded(line, refId) ==
  LET colorMatch == MatchColor(line)
  IN  IF colorMatch = NoMatch THEN [threw |-> TRUE, value |-> <<>>]
      ELSE LET color == ParseHex(Tail(colorMatch[1].group))
               perms == extractPermissions(line)
               uncoloured == Cut(line, colorMatch[1].index, colorMatch[1].last)
               permMatch == MatchPermissions(uncoloured)
               namePart == trim(IF permMatch = NoMatch THEN uncoloured
                                ELSE Cut(uncoloured, permMatch[1].index,
                                    permMatch[1].last))
               cleanName == trim(ReplaceRuns(namePart, Class(Spaces), 2, " "))
           IN  IF cleanName = <<>> THEN [threw |-> FALSE, value |-> <<>>]
               ELSE [threw |-> FALSE,
                     value |-> <<[refId |-> refId, name |-> cleanName,
                         color |-> color,
                                  hoist |-> FALSE, mentionable |-> TRUE,
                                  permissions |-> permissionsToBitfield(perms),
                                  isEveryone |-> FALSE]>>]

\* buildRoleFromLine, lines 360-378: value is <<>> for null and <<role>> for a
\* role; refId is the string of line 370
buildRoleFromLine(line, refId) ==
  LET colorMatch == MatchColor(line)
  IN  IF colorMatch = NoMatch THEN [threw |-> FALSE, value |-> <<>>]
      ELSE LET color == ParseHex(Tail(colorMatch[1].group))
               perms == extractPermissions(line)
               uncoloured == Cut(line, colorMatch[1].index, colorMatch[1].last)
               permMatch == MatchPermissions(uncoloured)
               namePart == trim(IF permMatch = NoMatch THEN uncoloured
                                ELSE Cut(uncoloured, permMatch[1].index,
                                    permMatch[1].last))
               cleanName == trim(ReplaceRuns(namePart, Class(Spaces), 2, " "))
           IN  IF cleanName = <<>> THEN [threw |-> FALSE, value |-> <<>>]
               ELSE [threw |-> FALSE,
                     value |-> <<[refId |-> refId, name |-> cleanName,
                         color |-> color,
                                  hoist |-> FALSE, mentionable |-> TRUE,
                                  permissions |-> permissionsToBitfield(perms),
                                  isEveryone |-> FALSE]>>]

\* buildChannelFromLine with one overwrite entry for each listed permission
buildChannelFromLinePerPermission(line) ==
  LET normalized == normalizeLine(line)
      isVoice == HasTypeMarker(normalized, {<<"v", "o", "i", "c",
          "e">>}) \/ HasVoiceWord(normalized)
      withoutPrefix ==
        SubSeq(normalized,
               RunEnd(normalized, 1, Class(Spaces \cup {"-", "|"})) + 1,
               Len(normalized))
      hashMatch == MatchHashName(normalized)
      firstSegment == SplitOn(withoutPrefix, "|")[1]
      unhashed == IF firstSegment # <<>> /\ Head(firstSegment) = "#"
                  THEN Tail(firstSegment) ELSE firstSegment
      namePart == IF hashMatch # NoMatch THEN hashMatch[1].group ELSE trim(unhashed)
      firstToken == SubSeq(withoutPrefix, 1,
                           RunEnd(withoutPrefix, 1, NotClass(Spaces)))
      safeName == slugifyPreserve(OrElse(namePart, firstToken))
      topic == OrElse(extractTopic(normalized), suggestDescription(safeName,
          isVoice))
      perms == extractPermissions(normalized)
      overwrites ==
        IF Len(perms) > 0
        THEN Some([k \in 1..Len(perms) |->
                    [roleRefId |-> Sentinel,
                     allow |-> permissionsToBitfield(<<perms[k]>>),
                     deny |-> 0]])
        ELSE Undefined
  IN  [name |-> OrElse(safeName, <<"c", "h", "a", "n", "n", "e", "l">>),
       type |-> IF isVoice THEN "voice" ELSE "text",
       topic |-> topic, private |-> FALSE, overwrites |-> overwrites]

\* buildChannelFromLine, lines 298-329
buildChannelFromLine(line) ==
  LET normalized == normalizeLine(line)
      isVoice == HasTypeMarker(normalized, {<<"v", "o", "i", "c",
          "e">>}) \/ HasVoiceWord(normalized)
      withoutPrefix ==
        SubSeq(normalized,
               RunEnd(normalized, 1, Class(Spaces \cup {"-", "|"})) + 1,
               Len(normalized))
      hashMatch == MatchHashName(normalized)
      firstSegment == SplitOn(withoutPrefix, "|")[1]
      unhashed == IF firstSegment # <<>> /\ Head(firstSegment) = "#"
                  THEN Tail(firstSegment) ELSE firstSegment
      namePart == IF hashMatch # NoMatch THEN hashMatch[1].group ELSE trim(unhashed)
      firstToken == SubSeq(withoutPrefix, 1,
                           RunEnd(withoutPrefix, 1, NotClass(Spaces)))
      safeName == slugifyPreserve(OrElse(namePart, firstToken))
      topic == OrElse(extractTopic(normalized), suggestDescription(safeName,
          isVoice))
      perms == extractPermissions(normalized)
      overwrites ==
        IF Len(perms) > 0
        THEN Some(<<[roleRefId |-> Sentinel,
            allow |-> permissionsToBitfield(perms),
                     deny |-> 0]>>)
        ELSE Undefined
  IN  [name |-> OrElse(safeName, <<"c", "h", "a", "n", "n", "e", "l">>),
       type |-> IF isVoice THEN "voice" ELSE "text",
       topic |-> topic, private |-> FALSE, overwrites |-> overwrites]

(***************************************************************************)
(* parseTextStructure (lines 244-287) as steps on the frame of a call: its *)
(* entry, one turn of the loop for each kind of line, and its return.      *)
(***************************************************************************)
ParserFrame(raw) ==
  [raw |-> raw, now |-> 0, status |-> "idle", lines |-> <<>>, idx |-> 1,
   template |-> [categories |-> <<>>, roles |-> <<>>], currentCategory |-> 0,
   handled |-> <<>>, returned |-> <<>>]
NoParse == ParserFrame(<<>>)

\* a modal submission on its way through handleModal (src/index.js): which
\* modal, whether it came from inside a guild, what the image analysis will
\* return, whether the guild to clone will be found, the template in hand,
\* the replies sent and the place in the loop of createRoles
ModalFrame(customId, inGuild, analysis, found) ==
  [customId |-> customId, inGuild |-> inGuild, analysis |-> analysis,
   found |-> found, pc |-> "submitted", template |-> JsNull,
   replies |-> <<>>, roleIdx |-> 1]
NoModal == [ModalFrame("none", TRUE, JsNull, TRUE) EXCEPT !.pc = "idle"]

\* a list of permission names on its way to permissionsToBitfield: the list
\* as given, the list as arranged for the call, and what the call returned
\* for the arranged list and for the arranged list written twice
BitsFrame(perms) ==
  [given |-> perms, arranged |-> perms, pc |-> "given", bitfield |-> 0,
   doubled |-> 0]
NoBits == [BitsFrame(<<>>) EXCEPT !.pc = "idle"]

\* a call of fromGuild (src/index.js, lines 388-445) on guild g: the two
\* collections it has fetched and the template it returned
ExtractFrame(g) ==
  [guild |-> g, pc |-> "start", channels |-> <<>>, roles |-> <<>>,
   template |-> JsNull]
NoExtract == [ExtractFrame("G2") EXCEPT !.pc = "idle"]

\* a call of analyzeImageStub (verifySystem.js, lines 96-112): the step that
\* failed, the text the OCR read and the template returned
OcrFrame ==
  [pc |-> "fetch", failed |-> "none", text |-> <<>>, template |-> JsNull]
NoOcr == [OcrFrame EXCEPT !.pc = "idle"]

\* a call of handleDeleteChannels (src/unnamed/part_002, lines 302-327):
\* whether the interaction has a guild, the channels whose `deletable` is
\* false, the ids of the fetched channels, channelsDeleted and the replies
DeletionFrame(inGuild, locked) ==
  [inGuild |-> inGuild, locked |-> locked, pc |-> "start", channels |-> <<>>,
   channelsDeleted |-> 0, replies |-> <<>>]
NoDeletion == [DeletionFrame(TRUE, {}) EXCEPT !.pc = "idle"]

\* the closure of startChangeLogger (changeLogger.js, lines 33-34): `queue`
\* and `timer` (0 for null, else the handle of setTimeout); beside it the
\* timeouts pending in the runtime, the calls of flush that took a batch (its
\* events and where the call stands), and the numbers of the next handle
\* and of the file events so far
LoggerFrame ==
  [queue |-> <<>>, timer |-> 0, timers |-> {}, flushes |-> <<>>,
   nextTimer |-> 1, seen |-> 0]
NoLogger == [LoggerFrame EXCEPT !.seen = -1]

\* interaction.reply and interaction.editReply
Reply(m, content) == [m EXCEPT !.replies = Append(@, <<"reply", content>>)]
EditReply(m, prefix, message) ==
  [m EXCEPT !.replies = Append(@, <<"editReply", prefix, message>>), !.pc = "done"]
Goto(m, pc) == [m EXCEPT !.pc = pc]

\* the parser with its template kept in module scope: a call goes on with the
\* template of the call before
parseEnterSharedTemplate(p) ==
  LET split == SplitLines(p.raw)
      lines == SelectSeq([k \in 1..Len(split) |-> normalizeLine(trimEnd(split[k]))],
                         LAMBDA l : l # <<>>)
  IN  [p EXCEPT !.status = "loop", !.lines = lines, !.idx = 1,
                !.currentCategory = 0, !.handled = <<>>]

\* lines 245-251
parseEnter(p) ==
  LET split == SplitLines(p.raw)
      lines == SelectSeq([k \in 1..Len(split) |-> normalizeLine(trimEnd(split[k]))],
                         LAMBDA l : l # <<>>)
  IN  [p EXCEPT !.status = "loop", !.lines = lines, !.idx = 1,
                !.template = [categories |-> <<>>, roles |-> <<>>],
                !.currentCategory = 0, !.handled = <<>>]

\* line 253 and line 262: the line of this turn, and `trimmed`
Line(p) == p.lines[p.idx]
Trimmed(p) == normalizeLine(trim(Line(p)))
InLoop(p) == p.status = "loop" /\ p.idx <= Len(p.lines)

\* line 370: `role-${Date.now()}-${Math.random().toString(16).slice(2, 6)}`
RefIdOf(now, hex) == <<"role", now * HexValues + hex>>

\* lines 254-260
roleLine(p, refId) ==
  LET role == buildRoleFromLine(Line(p), refId)
  IN  IF role.threw THEN [p EXCEPT !.status = "threw"]
      ELSE IF role.value # <<>>
      THEN [p EXCEPT !.template.roles = Append(@, role.value[1]),
                     !.idx = @ + 1, !.handled = Append(@, "role")]
      ELSE [p EXCEPT !.idx = @ + 1, !.handled = Append(@, "dropped")]

\* line 264 as it was before the (category) annotation: the annotation is
\* not looked at
isCategoryUnmarked(trimmed) ==
  ~looksLikeChannel(trimmed) /\ ~startsWith(trimmed, <<"-">>)

\* lines 263-264: const isCategory = ...
isCategory(trimmed) ==
  LET isChannel == looksLikeChannel(trimmed)
  IN  isCategoryLine(trimmed) \/ (~isChannel /\ ~startsWith(trimmed, <<"-">>))

\* lines 266-270 with `currentCategory = ` dropped: the category is pushed and
\* the channels go on to the one before
categoryLineNotCurrent(p) ==
  [p EXCEPT !.template.categories =
              Append(@, [name |-> cleanCategoryName(Trimmed(p)),
                         channels |-> <<>>]),
            !.idx = @ + 1, !.handled = Append(@, "category")]

\* lines 266-270
categoryLine(p) ==
  [p EXCEPT !.template.categories =
              Append(@, [name |-> cleanCategoryName(Trimmed(p)),
                  channels |-> <<>>]),
            !.currentCategory = Len(p.template.categories) + 1,
            !.idx = @ + 1, !.handled = Append(@, "category")]

\* lines 272-278; currentCategory is the place of the category in
\* template.categories, 0 for null
channelLine(p) ==
  LET opened == IF p.currentCategory = 0
                THEN Append(p.template.categories,
                            [name |-> <<"G", "e", "n", "e", "r", "a", "l">>,
                                channels |-> <<>>])
                ELSE p.template.categories
      current == IF p.currentCategory = 0 THEN Len(opened) ELSE p.currentCategory
      channel == buildChannelFromLine(Trimmed(p))
  IN  [p EXCEPT !.template.categories =
                  [opened EXCEPT ![current].channels = Append(@, channel)],
                !.currentCategory = current,
                !.idx = @ + 1, !.handled = Append(@, "channel")]

\* lines 281-286
parseReturn(p) ==
  LET totalChannels == CountChannels(p.template.categories, 1, 0)
      summary == DecimalString(Len(p.template.categories)) \o <<" ", "c", "a",
          "t", "e", "g", "o", "r", "i", "e", "s", " ", "/", " ">>
                 \o DecimalString(totalChannels) \o <<" ", "c", "h", "a", "n",
                     "n", "e", "l", "s">>
      template == [categories |-> p.template.categories,
          roles |-> p.template.roles,
                   summary |-> summary]
  IN  [p EXCEPT !.status = "returned", !.template = template,
                !.returned = Append(@, template)]

(***************************************************************************)
(* Texts handed to the parser: up to MaxLines lines of TextLines, taken    *)
(* from any line on in steps of 1 or 5, joined by LF or by CR LF.          *)
(***************************************************************************)
TextLines ==
  <<<<"I", "N", "F", "O", "R", "M", "A", "T", "I", "O", "N">>,
    <<"O", "w", "n", "e", "r", " ", "|", " ", "C", "o", "l", "o", "r", ":",
        " ", "#", "f", "f", "0", "0", "0", "0", " ", "|", " ", "P", "e", "r",
        "m", "i", "s", "s", "i", "o", "n", "s", ":", " ", "[", "A", "d", "m",
        "i", "n", "i", "s", "t", "r", "a", "t", "o", "r", ",", " ", "M", "a",
        "n", "a", "g", "e", " ", "R", "o", "l", "e", "s", "]">>,
    <<" ", " ", "#", "r", "u", "l", "e", "s", " ", "|", " ", "T", "y", "p",
        "e", ":", " ", "t", "e", "x", "t", " ", "|", " ", "P", "e", "r", "m",
        "i", "s", "s", "i", "o", "n", "s", ":", " ", "[", "V", "i", "e", "w",
        " ", "C", "h", "a", "n", "n", "e", "l", ",", " ", "R", "e", "a", "d",
        " ", "M", "e", "s", "s", "a", "g", "e", " ", "H", "i", "s", "t", "o",
        "r", "y", "]">>,
    <<"M", "o", "d", " ", "C", "o", "l", "o", "r", ":", "#", "0", "0", "F",
        "F", "7", "f", " ", " ">>,
    <<"-", " ", "l", "o", "u", "n", "g", "e", " ", "v", "o", "i", "c", "e">>,
    <<"V", "o", "i", "c", "e", " ", "C", "h", "a", "t", " ", "(", "c", "a",
        "t", "e", "g", "o", "r", "y", ")">>,
    <<"-", " ", "n", "o", "t", "e", "s">>,
    <<"C", "o", "l", "o", "r", ":", " ", "#", "1", "2", "3", "4", "5">>,
    <<" ", " ", " ">>,
    <<"EMOJI", "BOX", "#", "n", "e", "w", "s", " ", "EMDASH", " ", "D", "a",
        "i", "l", "y", " ", "u", "p", "d", "a", "t", "e", "s">>,
    <<>>,
    <<" ", "ZWSP">>>>

RECURSIVE Join(_, _)
Join(lines, sep) ==
  IF lines = <<>> THEN <<>>
  ELSE IF Len(lines) = 1 THEN lines[1]
  ELSE lines[1] \o sep \o Join(Tail(lines), sep)

TextOf(k, n, stride) ==
  Join([j \in 1..n |-> TextLines[((k + (j - 1) * stride - 1) % Len(TextLines)) + 1]],
       IF k % 2 = 0 THEN <<"CR", "LF">> ELSE <<"LF">>)

PoolTexts == {TextOf(k, n, stride) : k \in 1..Len(TextLines),
    n \in 0..MaxLines,
    stride \in {1, 5}}

\* texts of two lines: a category line and under it an indented channel line
\* `#<name> | Type: text | Permissions: [..]`, a permission given by its
\* label and its bit in PermissionsBitField.Flags
StructuredCategories == {<<"I", "N", "F", "O", "R", "M", "A", "T", "I", "O",
    "N">>, <<"S", "t", "a", "f", "f", " ", "A", "r", "e", "a">>}
StructuredNames == {<<"r", "u", "l", "e", "s">>, <<"v", "o", "i", "c", "e",
    "-", "c", "h", "a", "t">>}
StructuredPermissions ==
  {<<<<<<"V", "i", "e", "w", " ", "C", "h", "a", "n", "n", "e", "l">>, 10>>,
      <<<<"R", "e", "a", "d", " ", "M", "e", "s", "s", "a", "g", "e", " ",
      "H", "i", "s", "t", "o", "r", "y">>, 16>>>>,
   <<<<<<"S", "e", "n", "d", " ", "M", "e", "s", "s", "a", "g", "e", "s">>,
       11>>>>}
Labels(perms) == [k \in 1..Len(perms) |-> perms[k][1]]
TypedChannelLine(name, perms) ==
  <<" ", " ", "#">> \o name \o <<" ", "|", " ", "T", "y", "p", "e", ":", " ",
      "t", "e", "x", "t", " ", "|", " ", "P", "e", "r", "m", "i", "s", "s",
      "i", "o", "n", "s", ":", " ", "[">>
    \o Join(Labels(perms), <<",", " ">>) \o <<"]">>
StructuredText(cat, name, perms) ==
  Join(<<cat, TypedChannelLine(name, perms)>>, <<"LF">>)
StructuredTexts ==
  {StructuredText(cat, name, perms) :
     cat \in StructuredCategories, name \in StructuredNames,
     perms \in StructuredPermissions}

Texts == PoolTexts \cup StructuredTexts

(***************************************************************************)
(* State.                                                                  *)
(*   guild[g]   the live structure of guild g: its roles and channels in   *)
(*              creation order, and the number of its next live id         *)
(*   run[r]     the frame of run r of buildServerFromTemplate: its         *)
(*              arguments (guild, template), its locals (roleIdMap, the    *)
(*              loop positions, categoryChannel, channel, payload) and     *)
(*              where it is suspended                                      *)
(*   calls[r]   the platform calls run r has issued, in issue order, each  *)
(*              with its outcome once the platform has settled it          *)
(*   pending[r] the calls of run r the platform has not settled yet        *)
(*   settled[r] the calls of run r that are settled and whose awaiting     *)
(*              continuation has not run yet                               *)
(*   validation the call of ensureTemplateSafe under way: its argument and *)
(*              how it ended                                               *)
(*   parser     the text handed to parseTextStructure, the clock, the      *)
(*              frame of the call under way (lines, position in the loop,  *)
(*              template, currentCategory, what the loop did with each     *)
(*              line) and the templates the calls returned so far          *)
(***************************************************************************)
VARIABLES guild, run, calls, pending, settled, validation, parser, modal,
          bits, extract, ocr, deletion, logger

engine == <<guild, run, calls, pending, settled>>
side == <<bits, extract, ocr, deletion, logger>>
SideIdle ==
  /\ bits = NoBits /\ extract = NoExtract /\ ocr = NoOcr
  /\ deletion = NoDeletion /\ logger = NoLogger
front == <<validation, parser, modal, side>>
vars == <<guild, run, calls, pending, settled, validation, parser, modal,
         bits, extract, ocr, deletion, logger>>

WaitPcs == {"role_wait", "cat_wait", "chan_wait", "retry_wait", "ow_wait"}

InitGuild(g) ==
  [roles |-> [n \in 1..(MaxRoles + 1) |->
                [id |-> <<g, n - 1>>,
                 name |-> IF n = 1 THEN <<"@">> ELSE RoleName(n - 1),
                 color |-> 0, hoist |-> FALSE, mentionable |-> FALSE,
                 permissions |-> 0]],
   channels |-> <<[id |-> <<g, MaxRoles + 1>>, type |-> "GuildCategory",
                   name |-> <<"o", "l", "d">>, parent |-> NoId, topic |-> <<>>,
                   nsfw |-> FALSE, rateLimitPerUser |-> 0, overwrites |-> <<>>],
                  [id |-> <<g, MaxRoles + 2>>, type |-> "GuildText",
                   name |-> <<"o", "l", "d">>, parent |-> <<g, MaxRoles + 1>>,
                   topic |-> <<"t">>, nsfw |-> FALSE, rateLimitPerUser |-> 0,
                   overwrites |-> <<[id |-> EveryoneId(g), type |-> 0,
                                    allow |-> 1, deny |-> 0]>>]>>,
   nextId |-> MaxRoles + 3]

\* a guild as the platform creates it: the base role and nothing else
EmptyGuild(g) ==
  [roles |-> <<[id |-> EveryoneId(g), name |-> <<"@">>, color |-> 0,
                hoist |-> FALSE, mentionable |-> FALSE, permissions |-> 0]>>,
   channels |-> <<>>,
   nextId |-> 1]

Frame(g, t, pc) ==
  [pc |-> pc, guild |-> g, template |-> t,
   roleIdMap |-> <<>>, tplIdx |-> 1, catIdx |-> 1, chIdx |-> 1, owIdx |-> 1,
   categoryChannel |-> NoId, channel |-> NoId, payload |-> <<>>,
   error |-> NoErr, out |-> <<>>]

\* Map.prototype.get / set / has on a function from keys to values
MapHas(m, k) == k \in DOMAIN m
MapSet(m, k, v) == [x \in (DOMAIN m) \cup {k} |-> IF x = k THEN v ELSE m[x]]

\* a call as it leaves the run: the call site, the method and its arguments
Call(site, op, g, payload) ==
  [site |-> site, op |-> op, guild |-> g, payload |-> payload,
   status |-> "pending", id |-> NoId, err |-> NoErr]

\* `await <call>`: the call is issued and the run suspends on it
Await(l, call, waitPc) == [l EXCEPT !.pc = waitPc, !.out = Append(@, call)]

(***************************************************************************)
(* The synchronous code of the provisioning engine, as steps on a frame.   *)
(***************************************************************************)

\* a guild kept in module state, set by the first invocation
GuildArgShared(l) == "G1"

\* the guild argument of buildServerFromTemplate and ensureRoles
GuildArg(l) == l.guild

\* ensureRoles, lines 46-47: const map = new Map(); map.set('everyone', ...)
ensureRolesEnter(l) ==
  [l EXCEPT !.pc = "roles", !.tplIdx = 1,
            !.roleIdMap = MapSet(<<>>, Sentinel, EveryoneId(GuildArg(l)))]

\* ensureRoles with `await` missing at line 54: the call is issued and the loop
\* goes on without its result
ensureRolesIterNoAwait(l) ==
  LET roleTemplates == l.template.roles
      everyone == EveryoneId(GuildArg(l))
  IN  IF l.tplIdx > Len(roleTemplates)
      THEN [l EXCEPT !.pc = "cats", !.catIdx = 1]
      ELSE LET tpl == roleTemplates[l.tplIdx]
           IN  IF tpl.isEveryone \/ tpl.refId = everyone
               THEN [l EXCEPT !.roleIdMap = MapSet(@, tpl.refId, everyone),
                              !.tplIdx = @ + 1]
               ELSE [l EXCEPT !.roleIdMap = MapSet(@, tpl.refId, NoId),
                              !.tplIdx = @ + 1,
                              !.out = Append(@,
                                Call("ensureRoles:54", "roles.create", GuildArg(l),
                                     [name |-> tpl.name, color |-> tpl.color,
                                      hoist |-> tpl.hoist,
                                      mentionable |-> tpl.mentionable,
                                      permissions |->
                                        normalizePermValue(tpl.permissions)]))]

\* ensureRoles with line 50 reading `if (tpl.refId === guild.roles.everyone.id)`
ensureRolesIterRefIdOnly(l) ==
  LET roleTemplates == l.template.roles
      everyone == EveryoneId(GuildArg(l))
  IN  IF l.tplIdx > Len(roleTemplates)
      THEN [l EXCEPT !.pc = "cats", !.catIdx = 1]
      ELSE LET tpl == roleTemplates[l.tplIdx]
           IN  IF tpl.refId = everyone
               THEN [l EXCEPT !.roleIdMap = MapSet(@, tpl.refId, everyone),
                              !.tplIdx = @ + 1]
               ELSE Await(l,
                      Call("ensureRoles:54", "roles.create", GuildArg(l),
                           [name |-> tpl.name, color |-> tpl.color,
                            hoist |-> tpl.hoist, mentionable |-> tpl.mentionable,
                            permissions |-> normalizePermValue(tpl.permissions)]),
                      "role_wait")

\* ensureRoles, lines 49-63: one turn of `for (const tpl of roleTemplates)`,
\* up to the await of guild.roles.create; `return map` when the loop ends
ensureRolesIter(l) ==
  LET roleTemplates == l.template.roles
      everyone == EveryoneId(GuildArg(l))
  IN  IF l.tplIdx > Len(roleTemplates)
      THEN [l EXCEPT !.pc = "cats", !.catIdx = 1]
      ELSE LET tpl == roleTemplates[l.tplIdx]
           IN  IF tpl.isEveryone \/ tpl.refId = everyone
               THEN [l EXCEPT !.roleIdMap = MapSet(@, tpl.refId, everyone),
                              !.tplIdx = @ + 1]
               ELSE Await(l,
                      Call("ensureRoles:54", "roles.create", GuildArg(l),
                           [name |-> tpl.name, color |-> tpl.color,
                            hoist |-> tpl.hoist, mentionable |-> tpl.mentionable,
                            permissions |-> normalizePermValue(tpl.permissions)]),
                      "role_wait")

\* ensureRoles, line 61: map.set(tpl.refId, role.id)
ensureRolesCreated(l, id) ==
  [l EXCEPT !.roleIdMap = MapSet(@, l.template.roles[l.tplIdx].refId, id),
            !.tplIdx = @ + 1, !.pc = "roles"]

\* buildServerFromTemplate, lines 7-12: one turn of the category loop, up to
\* the await of guild.channels.create for the category
categoryIter(l) ==
  IF l.catIdx > Len(l.template.categories)
  THEN [l EXCEPT !.pc = "done"]
  ELSE LET category == l.template.categories[l.catIdx]
           categoryName ==
             sanitizeName(OrElse(category.name,
                                 <<"C", "a", "t", "e", "g", "o", "r", "y">>))
       IN  Await(l,
             Call("build:9", "channels.create", GuildArg(l),
                  [name |-> categoryName, type |-> "GuildCategory"]),
             "cat_wait")

\* line 9 with the result of the call dropped: categoryChannel keeps its value
categoryCreatedStale(l, id) == [l EXCEPT !.chIdx = 1, !.pc = "chans"]

\* buildServerFromTemplate, line 9: const categoryChannel = await ...
categoryCreated(l, id) ==
  [l EXCEPT !.categoryChannel = id, !.chIdx = 1, !.pc = "chans"]

\* buildServerFromTemplate, lines 15-27: the payload of a channel
channelPayload(ch, parent) ==
  LET name == sanitizeName(OrElse(ch.name, <<"c", "h", "a", "n", "n", "e", "l">>))
      isVoice == isVoiceType(ch.type)
  IN  IF isVoice
      THEN [name |-> name, type |-> "GuildVoice", parent |-> parent]
      ELSE [name |-> name, type |-> "GuildText", parent |-> parent,
            topic |-> IF ch.topic # <<>> THEN Slice(ch.topic, TopicLimit)
                      ELSE Undefined,
            nsfw |-> Has(ch, "nsfw") /\ ch.nsfw,
            rateLimitPerUser |-> IF Has(ch, "slowmode") THEN ch.slowmode ELSE 0]

\* buildServerFromTemplate, lines 14-29: one turn of the channel loop, up to
\* the await inside createChannelSafe (line 81)
channelIter(l) ==
  LET category == l.template.categories[l.catIdx]
  IN  IF l.chIdx > Len(category.channels)
      THEN [l EXCEPT !.catIdx = @ + 1, !.pc = "cats"]
      ELSE LET payload == channelPayload(category.channels[l.chIdx], l.categoryChannel)
           IN  Await([l EXCEPT !.payload = payload],
                     Call("createChannelSafe:81", "channels.create", GuildArg(l), payload),
                     "chan_wait")

\* buildServerFromTemplate, line 29: const channel = await createChannelSafe(...)
channelCreated(l, id) ==
  [l EXCEPT !.channel = id, !.owIdx = 1, !.pc = "ows"]

\* createChannelSafe, line 83
topicInvalid(err) == err.errorsTopic \/ err.code = InvalidFormBody

\* line 84 without `&& payload.topic`: if (topicInvalid)
retryOnTopicInvalid(err, payload) == topicInvalid(err)

\* createChannelSafe, line 84: if (topicInvalid && payload.topic)
retryWithoutTopic(err, payload) ==
  topicInvalid(err) /\ "topic" \in DOMAIN payload /\ payload.topic # Undefined

\* lines 85-86 without `delete clone.topic`
cloneKeepingTopic(payload) == payload

\* createChannelSafe, lines 85-86: const clone = {...payload}; delete clone.topic
cloneWithoutTopic(payload) ==
  [key \in (DOMAIN payload) \ {"topic"} |-> payload[key]]

\* createChannelSafe, lines 82-89: the catch block
createChannelSafeCatch(l, err) ==
  IF retryWithoutTopic(err, l.payload)
  THEN Await(l,
         Call("createChannelSafe:87", "channels.create", GuildArg(l),
              cloneWithoutTopic(l.payload)),
         "retry_wait")
  ELSE [l EXCEPT !.pc = "failed", !.error = err]

\* the overwrite loop with `break` for `continue` at line 34
overwriteIterBreak(l) ==
  LET ch == l.template.categories[l.catIdx].channels[l.chIdx]
  IN  IF ~ArrayIsArray(ch.overwrites) \/ l.owIdx > Len(ch.overwrites[1])
      THEN [l EXCEPT !.chIdx = @ + 1, !.pc = "chans"]
      ELSE LET ow == ch.overwrites[1][l.owIdx]
           IN  IF ~MapHas(l.roleIdMap, ow.roleRefId)
               THEN [l EXCEPT !.chIdx = @ + 1, !.pc = "chans"]
               ELSE Await(l,
                      Call("build:35", "permissionOverwrites.create", GuildArg(l),
                           [channel |-> l.channel,
                            role |-> l.roleIdMap[ow.roleRefId],
                            allow |-> normalizePermValue(ow.allow),
                            deny |-> normalizePermValue(ow.deny)]),
                      "ow_wait")

\* the overwrite loop with `await` missing at line 35
overwriteIterNoAwait(l) ==
  LET ch == l.template.categories[l.catIdx].channels[l.chIdx]
  IN  IF ~ArrayIsArray(ch.overwrites) \/ l.owIdx > Len(ch.overwrites[1])
      THEN [l EXCEPT !.chIdx = @ + 1, !.pc = "chans"]
      ELSE LET ow == ch.overwrites[1][l.owIdx]
           IN  IF ~MapHas(l.roleIdMap, ow.roleRefId)
               THEN [l EXCEPT !.owIdx = @ + 1]
               ELSE [l EXCEPT !.owIdx = @ + 1,
                              !.out = Append(@,
                                Call("build:35", "permissionOverwrites.create",
                                     GuildArg(l),
                                     [channel |-> l.channel,
                                      role |-> l.roleIdMap[ow.roleRefId],
                                      allow |-> normalizePermValue(ow.allow),
                                      deny |-> normalizePermValue(ow.deny)]))]

\* buildServerFromTemplate, lines 31-40: one turn of the overwrite loop, up to
\* the await of channel.permissionOverwrites.create
overwriteIter(l) ==
  LET ch == l.template.categories[l.catIdx].channels[l.chIdx]
  IN  IF ~ArrayIsArray(ch.overwrites) \/ l.owIdx > Len(ch.overwrites[1])
      THEN [l EXCEPT !.chIdx = @ + 1, !.pc = "chans"]
      ELSE LET ow == ch.overwrites[1][l.owIdx]
           IN  IF ~MapHas(l.roleIdMap, ow.roleRefId)
               THEN [l EXCEPT !.owIdx = @ + 1]
               ELSE Await(l,
                      Call("build:35", "permissionOverwrites.create", GuildArg(l),
                           [channel |-> l.channel,
                            role |-> l.roleIdMap[ow.roleRefId],
                            allow |-> normalizePermValue(ow.allow),
                            deny |-> normalizePermValue(ow.deny)]),
                      "ow_wait")

\* buildServerFromTemplate, line 35: the awaited overwrite call returned
overwriteCreated(l) == [l EXCEPT !.owIdx = @ + 1, !.pc = "ows"]

\* a rejected overwrite call caught and ignored, the loop going on
throwUnlessOverwrite(l, err) ==
  IF l.pc = "ow_wait" THEN [l EXCEPT !.owIdx = @ + 1, !.pc = "ows"]
  ELSE [l EXCEPT !.pc = "failed", !.error = err]

\* a failure answered by deleting the category created last
throwAfterCleanup(l, err) ==
  [l EXCEPT !.pc = "failed", !.error = err,
            !.out = IF l.categoryChannel = NoId THEN @
                    ELSE Append(@, Call("cleanup", "channel.delete", GuildArg(l),
                                        [channel |-> l.categoryChannel]))]

\* an awaited call rejected outside a try block: the error leaves
\* buildServerFromTemplate
throwToCaller(l, err) == [l EXCEPT !.pc = "failed", !.error = err]

\* the synchronous code of a run from where it stands to its next await,
\* its return or its throw
RECURSIVE RunToAwait(_)
RunToAwait(l) ==
  IF l.pc = "roles" THEN RunToAwait(ensureRolesIter(l))
  ELSE IF l.pc = "cats" THEN RunToAwait(categoryIter(l))
  ELSE IF l.pc = "chans" THEN RunToAwait(channelIter(l))
  ELSE IF l.pc = "ows" THEN RunToAwait(overwriteIter(l))
  ELSE l

(***************************************************************************)
(* The platform.                                                           *)
(***************************************************************************)
TopicErr == [code |-> InvalidFormBody, errorsTopic |-> TRUE]   \* errors.topic
FormErr == [code |-> InvalidFormBody, errorsTopic |-> FALSE]   \* another field
OtherErr == [code |-> 50013, errorsTopic |-> FALSE]            \* not a form error

\* the errors the platform may answer a call with: a form error only to the
\* creation of a text or voice channel, the one call whose error the engine
\* inspects, and one that blames the topic only to a call that carries a topic
Rejections(c) ==
  {OtherErr} \cup
  (IF c.op = "channels.create" /\ c.payload.type # "GuildCategory"
   THEN {FormErr} ELSE {}) \cup
  (IF c.op = "channels.create" /\ "topic" \in DOMAIN c.payload
      /\ c.payload.topic # Undefined
   THEN {TopicErr} ELSE {})

NewRole(id, p) ==
  [id |-> id, name |-> p.name, color |-> p.color, hoist |-> p.hoist,
   mentionable |-> p.mentionable, permissions |-> p.permissions]

NewChannel(id, p) ==
  [id |-> id, type |-> p.type, name |-> p.name,
   parent |-> IF "parent" \in DOMAIN p THEN p.parent ELSE NoId,
   topic |-> IF "topic" \in DOMAIN p THEN p.topic ELSE <<>>,
   nsfw |-> IF "nsfw" \in DOMAIN p THEN p.nsfw ELSE FALSE,
   rateLimitPerUser |-> IF "rateLimitPerUser" \in DOMAIN p THEN p.rateLimitPerUser ELSE 0,
   overwrites |-> <<>>]

\* permissionOverwrites.create replaces the overwrite of that role, if any;
\* the overwrite of a role has type 0, that of a member type 1
Upsert(ows, p) ==
  LET entry == [id |-> p.role, type |-> 0, allow |-> p.allow, deny |-> p.deny]
  IN  IF \E i \in 1..Len(ows) : ows[i].id = p.role
      THEN [i \in 1..Len(ows) |-> IF ows[i].id = p.role THEN entry ELSE ows[i]]
      ELSE Append(ows, entry)

\* the guild after the platform has carried out call c, with new live id `id`
Applied(gs, c, id) ==
  IF c.op = "roles.create"
  THEN [gs EXCEPT !.roles = Append(@, NewRole(id, c.payload)), !.nextId = @ + 1]
  ELSE IF c.op = "channels.create"
  THEN [gs EXCEPT !.channels = Append(@, NewChannel(id, c.payload)), !.nextId = @ + 1]
  ELSE IF c.op = "channel.delete"
  THEN [gs EXCEPT !.channels = SelectSeq(@, LAMBDA ch : ch.id # c.payload.channel)]
  ELSE [gs EXCEPT !.channels =
          [i \in 1..Len(@) |->
             IF @[i].id = c.payload.channel
             THEN [@[i] EXCEPT !.overwrites = Upsert(@, c.payload)]
             ELSE @[i]]]

\* the platform carries out the k-th call of run r and resolves its promise
PlatformResolve(r, k) ==
  /\ k \in pending[r]
  /\ LET c == calls[r][k]
         g == c.guild
         id == IF c.op \in {"roles.create", "channels.create"}
               THEN <<g, guild[g].nextId>> ELSE c.payload.channel
     IN  /\ guild' = [guild EXCEPT ![g] = Applied(@, c, id)]
         /\ calls' = [calls EXCEPT ![r][k].status = "ok", ![r][k].id = id]
  /\ pending' = [pending EXCEPT ![r] = @ \ {k}]
  /\ settled' = [settled EXCEPT ![r] = Append(@, k)]
  /\ UNCHANGED <<run, front>>

\* the platform rejects the k-th call of run r with error e
PlatformReject(r, k, e) ==
  /\ k \in pending[r]
  /\ e \in Rejections(calls[r][k])
  /\ calls' = [calls EXCEPT ![r][k].status = "err", ![r][k].err = e]
  /\ pending' = [pending EXCEPT ![r] = @ \ {k}]
  /\ settled' = [settled EXCEPT ![r] = Append(@, k)]
  /\ UNCHANGED <<guild, run, front>>

(***************************************************************************)
(* The snapshot extractor (src/index.js, fromGuild).  The roles and the    *)
(* channels of a guild are kept in the order of their rawPosition, which   *)
(* for roles and channels created one after the other is the order of      *)
(* their creation.                                                         *)
(***************************************************************************)
\* lines 393-407 with the base role left out, as ensureRoles leaves it out
roleTemplatesWithoutBase(g, gs) ==
  LET others == SelectSeq(gs.roles, LAMBDA role : role.id # EveryoneId(g))
  IN  [i \in 1..Len(others) |->
         [refId |-> others[i].id,
          name |-> others[i].name,
          color |-> others[i].color,
          hoist |-> others[i].hoist,
          mentionable |-> others[i].mentionable,
          permissions |-> others[i].permissions,
          position |-> i,
          isEveryone |-> FALSE]]

\* lines 393-407: one RoleSpec per role of the guild
roleTemplates(g, gs) ==
  [i \in 1..Len(gs.roles) |->
     [refId |-> gs.roles[i].id,
      name |-> gs.roles[i].name,
      color |-> gs.roles[i].color,
      hoist |-> gs.roles[i].hoist,
      mentionable |-> gs.roles[i].mentionable,
      permissions |-> gs.roles[i].permissions,
      position |-> i - 1,
      isEveryone |-> (gs.roles[i].id = EveryoneId(g))]]

\* lines 429-435: the triples of the role-scoped overwrites of a channel
roleOverwrites(ch) ==
  LET roleScoped == SelectSeq(ch.overwrites, LAMBDA ow : ow.type = 0)
  IN  [o \in 1..Len(roleScoped) |->
         [roleRefId |-> roleScoped[o].id,
          allow |-> roleScoped[o].allow,
          deny |-> roleScoped[o].deny]]

\* lines 423-436 with every channel extracted as a text channel
extractedChannelAllText(ch) ==
  [name |-> ch.name,
   type |-> "text",
   topic |-> ch.topic,
   nsfw |-> ch.nsfw,
   slowmode |-> ch.rateLimitPerUser,
   overwrites |-> Some(roleOverwrites(ch))]

\* lines 423-436 without the filter of line 430: a triple for every overwrite
extractedChannelEveryOverwrite(ch) ==
  [name |-> ch.name,
   type |-> IF ch.type = "GuildVoice" THEN "voice" ELSE "text",
   topic |-> ch.topic,
   nsfw |-> ch.nsfw,
   slowmode |-> ch.rateLimitPerUser,
   overwrites |-> Some([o \in 1..Len(ch.overwrites) |->
                          [roleRefId |-> ch.overwrites[o].id,
                           allow |-> ch.overwrites[o].allow,
                           deny |-> ch.overwrites[o].deny]])]

\* lines 423-436: the ChannelSpec of a channel that has a parent
extractedChannel(ch) ==
  [name |-> ch.name,
   type |-> IF ch.type = "GuildVoice" THEN "voice" ELSE "text",
   topic |-> ch.topic,
   nsfw |-> ch.nsfw,
   slowmode |-> ch.rateLimitPerUser,
   overwrites |-> Some(roleOverwrites(ch))]

\* lines 409-439 with the categories that got no channel left out
categoryMapNonEmpty(gs) ==
  LET cats == SelectSeq(gs.channels,
                        LAMBDA ch : /\ ch.type = "GuildCategory"
                                    /\ \E k \in 1..Len(gs.channels) :
                                         gs.channels[k].parent = ch.id)
      Under(cat) == SelectSeq(gs.channels, LAMBDA ch : ch.parent = cat.id)
  IN  [c \in 1..Len(cats) |->
         [name |-> cats[c].name,
          channels |-> [j \in 1..Len(Under(cats[c])) |->
                          extractedChannel(Under(cats[c])[j])]]]

\* lines 409-439: the categories in order, each with the channels whose parent
\* it is, in order
categoryMap(gs) ==
  LET cats == SelectSeq(gs.channels, LAMBDA ch : ch.type = "GuildCategory")
      Under(cat) == SelectSeq(gs.channels, LAMBDA ch : ch.parent = cat.id)
  IN  [c \in 1..Len(cats) |->
         [name |-> cats[c].name,
          channels |-> [j \in 1..Len(Under(cats[c])) |->
                          extractedChannel(Under(cats[c])[j])]]]

\* fromGuild(guild), lines 388-445
fromGuild(g, gs) ==
  [summary |-> "copied",
   roles |-> roleTemplates(g, gs),
   categories |-> categoryMap(gs)]

(***************************************************************************)
(* The runs.                                                               *)
(***************************************************************************)

\* run r goes on to frame l: the calls l issued on the way are outstanding
Proceed(r, l, consumed) ==
  /\ run' = [run EXCEPT ![r] = [l EXCEPT !.out = <<>>]]
  /\ calls' = [calls EXCEPT ![r] = @ \o l.out]
  /\ pending' = [pending EXCEPT
                   ![r] = @ \cup ((Len(calls[r]) + 1)..(Len(calls[r]) + Len(l.out)))]
  /\ settled' = [settled EXCEPT ![r] = IF consumed THEN Tail(@) ELSE @]
  /\ UNCHANGED <<guild, front>>

\* the settled call the run is resumed with
Resumed(r) == calls[r][Head(settled[r])]

\* buildServerFromTemplate(guild, template) is called: lines 4-5
buildServerFromTemplate(r) ==
  /\ run[r].pc = "start"
  /\ Proceed(r, RunToAwait(ensureRolesEnter(run[r])), FALSE)

\* ensureRoles resumes after guild.roles.create: lines 54-61
RoleCreated(r) ==
  /\ run[r].pc = "role_wait" /\ settled[r] # <<>>
  /\ Resumed(r).status = "ok"
  /\ Proceed(r, RunToAwait(ensureRolesCreated(run[r], Resumed(r).id)), TRUE)

\* buildServerFromTemplate resumes after the category is created: lines 9-12
CategoryCreated(r) ==
  /\ run[r].pc = "cat_wait" /\ settled[r] # <<>>
  /\ Resumed(r).status = "ok"
  /\ Proceed(r, RunToAwait(categoryCreated(run[r], Resumed(r).id)), TRUE)

\* createChannelSafe returns the channel of its first or second call:
\* lines 81, 87, 29
ChannelCreated(r) ==
  /\ run[r].pc \in {"chan_wait", "retry_wait"} /\ settled[r] # <<>>
  /\ Resumed(r).status = "ok"
  /\ Proceed(r, RunToAwait(channelCreated(run[r], Resumed(r).id)), TRUE)

\* createChannelSafe catches the rejection of its first call: lines 82-89
ChannelRejected(r) ==
  /\ run[r].pc = "chan_wait" /\ settled[r] # <<>>
  /\ Resumed(r).status = "err"
  /\ Proceed(r, RunToAwait(createChannelSafeCatch(run[r], Resumed(r).err)), TRUE)

\* buildServerFromTemplate resumes after an overwrite call: lines 35-38
OverwriteCreated(r) ==
  /\ run[r].pc = "ow_wait" /\ settled[r] # <<>>
  /\ Resumed(r).status = "ok"
  /\ Proceed(r, RunToAwait(overwriteCreated(run[r])), TRUE)

\* an awaited call outside the try block of createChannelSafe is rejected:
\* lines 54, 9, 87, 35
Rejected(r) ==
  /\ run[r].pc \in {"role_wait", "cat_wait", "retry_wait", "ow_wait"}
  /\ settled[r] # <<>>
  /\ Resumed(r).status = "err"
  /\ Proceed(r, RunToAwait(throwToCaller(run[r], Resumed(r).err)), TRUE)

(***************************************************************************)
(* Specifications.  Spec: one run, on G1, of any template.  PairSpec: two  *)
(* runs, one on G1 and one on G2, interleaved at their awaits.             *)
(***************************************************************************)
EngineInit(ts) ==
  /\ guild = [g \in Guilds |-> InitGuild(g)]
  /\ run = [r \in Runs |-> Frame(TargetOf[r], ts[r][1], ts[r][2])]
  /\ calls = [r \in Runs |-> <<>>]
  /\ pending = [r \in Runs |-> {}]
  /\ settled = [r \in Runs |-> <<>>]

InitWith(ts) ==
  /\ EngineInit(ts)
  /\ validation = NoValidation
  /\ parser = NoParse
  /\ modal = NoModal
  /\ SideIdle

Idle == ParsedTemplate(0, FALSE, 0, 0, 0, FALSE)

Init == \E t \in Templates : InitWith(<<<<t, "start">>, <<Idle, "idle">>>>)

PairInit ==
  \E t1 \in PairTemplates, t2 \in PairTemplates :
    InitWith(<<<<t1, "start">>, <<t2, "start">>>>)

Next ==
  \E r \in Runs :
    \/ buildServerFromTemplate(r)
    \/ RoleCreated(r)
    \/ CategoryCreated(r)
    \/ ChannelCreated(r)
    \/ ChannelRejected(r)
    \/ OverwriteCreated(r)
    \/ Rejected(r)
    \/ \E k \in pending[r] :
         \/ PlatformResolve(r, k)
         \/ \E e \in {TopicErr, FormErr, OtherErr} : PlatformReject(r, k, e)

Spec == Init /\ [][Next]_vars
PairSpec == PairInit /\ [][Next]_vars

(***************************************************************************)
(* RoundSpec: one run on an empty guild G1, of any template of Templates   *)
(* or of one whose names are as long as the engine keeps them, or one      *)
(* character longer.                                                       *)
(***************************************************************************)
NameOfLength(n) == [i \in 1..n |-> "x"]

Renamed(t, n) ==
  [t EXCEPT !.categories =
     [c \in 1..Len(@) |->
        [name |-> NameOfLength(n),
         channels |-> [j \in 1..Len(@[c].channels) |->
                         [@[c].channels[j] EXCEPT !.name = NameOfLength(n)]]]]]

RoundTemplates ==
  Templates \cup
  {Renamed(t, n) : t \in TemplatesOfSize({1}, {1}, {1}, {0}),
                   n \in {NameLimit, NameLimit + 1}}

RoundInit ==
  /\ guild = [g \in Guilds |-> EmptyGuild(g)]
  /\ \E t \in RoundTemplates :
       run = [r \in Runs |-> IF r = 1 THEN Frame(TargetOf[r], t, "start")
                                      ELSE Frame(TargetOf[r], Idle, "idle")]
  /\ calls = [r \in Runs |-> <<>>]
  /\ pending = [r \in Runs |-> {}]
  /\ settled = [r \in Runs |-> <<>>]
  /\ validation = NoValidation
  /\ parser = NoParse
  /\ modal = NoModal
  /\ SideIdle

RoundSpec == RoundInit /\ [][Next]_vars

(***************************************************************************)
(* ValidateSpec: one call of ensureTemplateSafe, on any argument of        *)
(* ValidatorInputs.                                                        *)
(***************************************************************************)
ValidateInit ==
  /\ EngineInit(<<<<Idle, "idle">>, <<Idle, "idle">>>>)
  /\ \E t \in ValidatorInputs : validation = [template |-> t, result |-> "called"]
  /\ parser = NoParse
  /\ modal = NoModal
  /\ SideIdle

\* ensureTemplateSafe(template) runs to its end: lines 447-462
Validate ==
  /\ validation.result = "called"
  /\ validation' = [validation EXCEPT !.result = ensureTemplateSafe(validation.template)]
  /\ UNCHANGED <<engine, parser, modal, side>>

ValidateNext == Validate

ValidateSpec == ValidateInit /\ [][ValidateNext]_vars

(***************************************************************************)
(* ParseSpec: a call of parseTextStructure on one text of Texts and one    *)
(* more call on the same text, while the clock goes on.                    *)
(***************************************************************************)
ParseInit ==
  /\ EngineInit(<<<<Idle, "idle">>, <<Idle, "idle">>>>)
  /\ validation = NoValidation
  /\ \E raw \in Texts : parser = ParserFrame(raw)
  /\ modal = NoModal
  /\ SideIdle

\* Date.now() moves on before it is read, at line 370
Tick ==
  /\ parser.now < MaxNow
  /\ InLoop(parser) /\ isRoleLine(Line(parser))
  /\ parser' = [parser EXCEPT !.now = @ + 1]
  /\ UNCHANGED <<engine, validation, modal, side>>

\* parseTextStructure(raw) is called, and called once more when it has
\* returned: lines 244-251
ParseCalled ==
  /\ \/ parser.status = "idle"
     \/ parser.status = "returned" /\ Tail(parser.returned) = <<>>
  /\ parser' = parseEnter(parser)
  /\ UNCHANGED <<engine, validation, modal, side>>

\* a turn of the loop on a role line: lines 254-260
ParseRoleLine ==
  /\ InLoop(parser) /\ isRoleLine(Line(parser))
  /\ \E hex \in 0..(HexValues - 1) :
       parser' = roleLine(parser, RefIdOf(parser.now, hex))
  /\ UNCHANGED <<engine, validation, modal, side>>

\* a turn of the loop on a category line: lines 262-270
ParseCategoryLine ==
  /\ InLoop(parser) /\ ~isRoleLine(Line(parser))
  /\ isCategory(Trimmed(parser))
  /\ parser' = categoryLine(parser)
  /\ UNCHANGED <<engine, validation, modal, side>>

\* a turn of the loop on any other line: lines 262-278
ParseChannelLine ==
  /\ InLoop(parser) /\ ~isRoleLine(Line(parser))
  /\ ~isCategory(Trimmed(parser))
  /\ parser' = channelLine(parser)
  /\ UNCHANGED <<engine, validation, modal, side>>

\* the loop is over: lines 281-286
ParseReturned ==
  /\ parser.status = "loop" /\ parser.idx > Len(parser.lines)
  /\ parser' = parseReturn(parser)
  /\ UNCHANGED <<engine, validation, modal, side>>

ParseNext ==
  \/ Tick
  \/ ParseCalled
  \/ ParseRoleLine
  \/ ParseCategoryLine
  \/ ParseChannelLine
  \/ ParseReturned

ParseSpec == ParseInit /\ [][ParseNext]_vars

(***************************************************************************)
(* BitsSpec: permissionsToBitfield (textParser.js, lines 389-491) called   *)
(* on a list of up to MaxPerms names, in any arrangement of the list.      *)
(***************************************************************************)
\* names as they stand in a Permissions list, each with the bit of its flag
\* in PermissionsBitField.Flags, -1 for a name that is no case of the switch
PermissionWords ==
  <<<<<<"V", "i", "e", "w", " ", "C", "h", "a", "n", "n", "e", "l">>, 10>>,
      <<<<"r", "e", "a", "d", " ", "c", "h", "a", "n", "n", "e", "l", "s">>,
      10>>,
    <<<<"M", "a", "n", "a", "g", "e", " ", "R", "o", "l", "e", "s", " ", "(",
        "s", "t", "a", "f", "f", ")">>, 28>>, <<<<"S", "E", "N", "D", " ",
        "M", "E", "S", "S", "A", "G", "E", "S">>, 11>>,
    <<<<"A", "d", "m", "i", "n", "i", "s", "t", "r", "a", "t", "o", "r">>,
        3>>, <<<<"F", "l", "y">>, -1>>>>
WordBit(word) ==
  LET k == CHOOSE n \in 1..Len(PermissionWords) : PermissionWords[n][1] = word
  IN  PermissionWords[k][2]
PermissionLists ==
  UNION {[1..n -> {PermissionWords[k][1] : k \in 1..Len(PermissionWords)}] :
           n \in 0..MaxPerms}

BitsInit ==
  /\ EngineInit(<<<<Idle, "idle">>, <<Idle, "idle">>>>)
  /\ validation = NoValidation
  /\ parser = NoParse
  /\ modal = NoModal
  /\ \E perms \in PermissionLists : bits = BitsFrame(perms)
  /\ extract = NoExtract
  /\ ocr = NoOcr
  /\ deletion = NoDeletion
  /\ logger = NoLogger

\* the caller hands the names over in another order: two neighbours swap
Rearrange ==
  /\ bits.pc = "given"
  /\ \E i \in 1..(Len(bits.arranged) - 1) :
       bits' = [bits EXCEPT !.arranged[i] = bits.arranged[i + 1],
                            !.arranged[i + 1] = bits.arranged[i]]
  /\ UNCHANGED <<engine, validation, parser, modal, extract, ocr, deletion,
                 logger>>

\* permissionsToBitfield(arranged) and permissionsToBitfield of the same
\* list written twice
Convert ==
  /\ bits.pc = "given"
  /\ bits' = [bits EXCEPT !.pc = "converted",
                          !.bitfield = permissionsToBitfield(bits.arranged),
                          !.doubled = permissionsToBitfield(bits.arranged \o bits.arranged)]
  /\ UNCHANGED <<engine, validation, parser, modal, extract, ocr, deletion,
                 logger>>

BitsNext ==
  \/ Rearrange
  \/ Convert

BitsSpec == BitsInit /\ [][BitsNext]_vars

(***************************************************************************)
(* ExtractSpec: one call of fromGuild (src/index.js, lines 388-445) on G2, *)
(* a guild with categories with and without channels, channels without a   *)
(* parent or with a parent that is gone, and overwrites of roles and of     *)
(* members.  Members of the guild go on changing it while the call waits.  *)
(***************************************************************************)
Member == <<"user", 1>>
RoleOverwrite(id, allow, deny) ==
  [id |-> id, type |-> 0, allow |-> allow, deny |-> deny]
MemberOverwrite(id, allow, deny) ==
  [id |-> id, type |-> 1, allow |-> allow, deny |-> deny]
LiveChannel(id, type, name, parent, overwrites) ==
  [id |-> id, type |-> type, name |-> name, parent |-> parent, topic |-> <<>>,
   nsfw |-> FALSE, rateLimitPerUser |-> 0, overwrites |-> overwrites]
LiveChannels(g) ==
  <<LiveChannel(<<g, 11>>, "GuildCategory", <<"s", "t", "a", "f", "f">>, NoId,
      <<>>),
    LiveChannel(<<g, 12>>, "GuildText", <<"r", "u", "l", "e", "s">>, <<g, 11>>,
                <<RoleOverwrite(EveryoneId(g), 1024, 0),
                  MemberOverwrite(Member, 0, 1024),
                  RoleOverwrite(<<g, 1>>, 2048, 1)>>),
    LiveChannel(<<g, 13>>, "GuildCategory", <<"e", "m", "p", "t", "y">>, NoId,
        <<>>),
    LiveChannel(<<g, 14>>, "GuildText", <<"l", "o", "b", "b", "y">>, NoId,
                <<RoleOverwrite(<<g, 1>>, 1024, 0)>>),
    LiveChannel(<<g, 15>>, "GuildVoice", <<"t", "a", "l", "k">>, <<g, 11>>,
                <<MemberOverwrite(Member, 1024, 0)>>)>>
LiveGuild(g, nRoles, kept) ==
  [roles |-> [n \in 1..(nRoles + 1) |->
                [id |-> <<g, n - 1>>,
                 name |-> IF n = 1 THEN <<"@">> ELSE RoleName(n - 1),
                 color |-> n - 1, hoist |-> FALSE, mentionable |-> FALSE,
                 permissions |-> 8 * (n - 1)]],
   channels |-> SelectSeq(LiveChannels(g), LAMBDA ch : ch.id[2] \in kept),
   nextId |-> 21]
LiveGuilds(g) ==
  {LiveGuild(g, nRoles, kept) : nRoles \in 1..MaxRoles,
      kept \in SUBSET (11..15)}

ExtractInit ==
  /\ \E source \in LiveGuilds("G2") :
       guild = [g \in Guilds |-> IF g = "G2" THEN source ELSE InitGuild(g)]
  /\ run = [r \in Runs |-> Frame(TargetOf[r], Idle, "idle")]
  /\ calls = [r \in Runs |-> <<>>]
  /\ pending = [r \in Runs |-> {}]
  /\ settled = [r \in Runs |-> <<>>]
  /\ validation = NoValidation
  /\ parser = NoParse
  /\ modal = NoModal
  /\ bits = NoBits
  /\ extract = ExtractFrame("G2")
  /\ ocr = NoOcr
  /\ deletion = NoDeletion
  /\ logger = NoLogger

\* line 390: await guild.channels.fetch()
ChannelsFetched ==
  /\ extract.pc = "start"
  /\ extract' = [extract EXCEPT !.channels = guild[extract.guild].channels,
                                !.pc = "roles"]
  /\ UNCHANGED <<engine, validation, parser, modal, bits, ocr, deletion,
                 logger>>

\* line 391: await guild.roles.fetch()
RolesFetched ==
  /\ extract.pc = "roles"
  /\ extract' = [extract EXCEPT !.roles = guild[extract.guild].roles,
                                !.pc = "build"]
  /\ UNCHANGED <<engine, validation, parser, modal, bits, ocr, deletion,
                 logger>>

\* lines 393-444: the template of the two fetched collections
ExtractReturned ==
  /\ extract.pc = "build"
  /\ extract' = [extract EXCEPT
                   !.template = fromGuild(extract.guild,
                                          [channels |-> extract.channels,
                                           roles |-> extract.roles]),
                   !.pc = "returned"]
  /\ UNCHANGED <<engine, validation, parser, modal, bits, ocr, deletion,
                 logger>>

\* a member of the guild adds a role while the call waits for a fetch
MemberAddsRole ==
  /\ extract.pc \in {"start", "roles"}
  /\ guild[extract.guild].nextId = 21
  /\ guild' = [guild EXCEPT
                 ![extract.guild] =
                   [@ EXCEPT !.roles = Append(@, [id |-> <<extract.guild, 21>>,
                                                  name |-> <<"l", "a", "t",
                                                      "e">>, color |-> 0,
                                                  hoist |-> FALSE,
                                                  mentionable |-> FALSE,
                                                  permissions |-> 0]),
                             !.nextId = 22]]
  /\ UNCHANGED <<run, calls, pending, settled, front>>

\* a member of the guild deletes a category while the call waits for the
\* roles: the channels under it lose their parent
MemberDeletesCategory ==
  /\ extract.pc = "roles"
  /\ \E k \in 1..Len(guild[extract.guild].channels) :
       LET gone == guild[extract.guild].channels[k]
       IN  /\ gone.type = "GuildCategory"
           /\ guild' = [guild EXCEPT
                          ![extract.guild].channels =
                            [j \in 1..(Len(@) - 1) |->
                               LET ch == IF j < k THEN @[j] ELSE @[j + 1]
                               IN  IF ch.parent = gone.id
                                   THEN [ch EXCEPT !.parent = NoId] ELSE ch]]
  /\ UNCHANGED <<run, calls, pending, settled, front>>

ExtractNext ==
  \/ ChannelsFetched
  \/ RolesFetched
  \/ ExtractReturned
  \/ MemberAddsRole
  \/ MemberDeletesCategory

ExtractSpec == ExtractInit /\ [][ExtractNext]_vars

(***************************************************************************)
(* The image analysis (src/src/modules/verifySystem.js, lines 93-231).     *)
(***************************************************************************)
\* cleanLine, lines 198-201
cleanLine(str) ==
  IF str = <<>> THEN <<>> ELSE trim(ReplaceRuns(str, Class(Spaces), 2, " "))

\* normalizeName, lines 203-207
normalizeName(str) ==
  LET trimmed == trim(str)
  IN  IF trimmed = <<>> THEN <<"c", "h", "a", "n", "n", "e", "l">>
      ELSE toLowerCase(ReplaceRuns(trimmed, Class(Spaces), 1, "-"))

\* looksLikeChannel of verifySystem.js, lines 172-175
ocrLooksLikeChannel(line) ==
  LET lower == toLowerCase(line)
  IN  \/ startsWith(lower, <<"#">>)
      \/ Includes(lower, <<" ", "#">>)
      \/ Includes(lower, <<"v", "o", "i", "c", "e">>)
      \/ startsWith(lower, <<"-", " ", "#">>)

\* looksLikeCategory, lines 177-182
looksLikeCategory(line) ==
  LET lower == toLowerCase(line)
  IN  IF lower = <<>> THEN FALSE
      ELSE IF ocrLooksLikeChannel(line) THEN FALSE
      ELSE Len(lower) < 80

\* suggestDescription of verifySystem.js, lines 209-216
ocrSuggestDescription(name, isVoice) ==
  LET lower == toLowerCase(name)
  IN  IF Includes(lower, <<"w", "e", "l", "c", "o", "m",
      "e">>) THEN "Welcome channel with info."
      ELSE IF Includes(lower, <<"r", "u", "l", "e", "s">>) THEN "Server rules."
      ELSE IF Includes(lower, <<"a", "n", "n", "o", "u", "n", "c",
          "e">>) THEN "Announcements."
      ELSE IF isVoice THEN "Simple voice channel."
      ELSE "Auto description from OCR."

\* parseChannel, lines 184-196
parseChannel(line) ==
  LET lower == toLowerCase(line)
      isVoice == Includes(lower, <<"v", "o", "i", "c", "e">>)
      undashed == SubSeq(line, RunEnd(line, 1, Class(Spaces \cup {"-"})) + 1,
                         Len(line))
      unhashed == SubSeq(undashed, RunEnd(undashed, 1, Class({"#"})) + 1,
                         Len(undashed))
      stripped == IF unhashed = undashed THEN undashed
                  ELSE SubSeq(unhashed, SkipSpaces(unhashed, 1), Len(unhashed))
      name == normalizeName(stripped)
  IN  [name |-> name, type |-> IF isVoice THEN "voice" ELSE "text",
       topic |-> ocrSuggestDescription(name, isVoice), private |-> FALSE]

\* fallbackTemplate, lines 218-231
fallbackTemplate ==
  [categories |->
     <<[name |-> <<"f", "r", "o", "m", "-", "i", "m", "a", "g", "e">>,
        channels |->
          <<[name |-> <<"w", "e", "l", "c", "o", "m", "e">>, type |-> "text",
             topic |-> "Welcome channel with info.", private |-> FALSE],
            [name |-> <<"r", "u", "l", "e", "s">>, type |-> "text",
                topic |-> "Server rules.",
             private |-> FALSE],
            [name |-> <<"h", "a", "n", "g", "o", "u", "t">>, type |-> "voice",
             topic |-> "Simple voice channel.", private |-> FALSE]>>]>>,
   summary |-> "Fallback template from image"]

\* lines 150-162: the loop over the lines from line i on, the categories so
\* far and the place of currentCategory among them (0 for null)
RECURSIVE templateLoop(_, _, _, _)
templateLoop(lines, i, categories, currentCategory) ==
  IF i > Len(lines) THEN categories
  ELSE IF looksLikeCategory(lines[i])
  THEN templateLoop(lines, i + 1,
                    Append(categories, [name |-> normalizeName(lines[i]),
                                        channels |-> <<>>]),
                    Len(categories) + 1)
  ELSE IF ocrLooksLikeChannel(lines[i])
  THEN LET opened == IF currentCategory = 0
                     THEN Append(categories, [name |-> <<"g", "e", "n", "e",
                         "r", "a", "l">>,
                                              channels |-> <<>>])
                     ELSE categories
           current == IF currentCategory = 0 THEN Len(opened) ELSE currentCategory
       IN  templateLoop(lines, i + 1,
                        [opened EXCEPT ![current].channels =
                                         Append(@, parseChannel(lines[i]))],
                        current)
  ELSE templateLoop(lines, i + 1, categories, currentCategory)

\* lines 142-145
cleanedLines(rawText) ==
  LET split == SplitLines(rawText)
  IN  SelectSeq([k \in 1..Len(split) |-> cleanLine(split[k])],
                LAMBDA line : line # <<>>)

\* buildTemplateFromText without lines 164-166: what the loop built is returned
buildTemplateFromTextAsBuilt(rawText) ==
  [categories |-> templateLoop(cleanedLines(rawText), 1, <<>>, 0)]

\* buildTemplateFromText, lines 141-168
buildTemplateFromText(rawText) ==
  LET template == [categories |-> templateLoop(cleanedLines(rawText), 1, <<>>,
      0)]
  IN  IF Len(template.categories) = 0 THEN fallbackTemplate ELSE template

\* lines 101-106: the template with its summary
summarized(template) ==
  [categories |-> template.categories,
   summary |-> DecimalString(Len(template.categories)) \o <<" ", "c", "a",
       "t", "e", "g", "o", "r", "i", "e", "s", " ", "/", " ">>
               \o DecimalString(CountChannels(template.categories, 1, 0))
               \o <<" ", "c", "h", "a", "n", "n", "e", "l", "s", " ", "(",
                   "O", "C", "R", ")">>]

(***************************************************************************)
(* OcrSpec: one call of analyzeImageStub.  The image host, the image       *)
(* library and the OCR worker are outside the repository: each of the      *)
(* three awaited steps resolves or rejects, and the OCR reads any text of  *)
(* OcrTexts.                                                               *)
(***************************************************************************)
OcrLines ==
  <<<<"I", "N", "F", "O">>, <<"#", "w", "e", "l", "c", "o", "m", "e">>, <<"-",
      " ", "#", "r", "u", "l", "e", "s", " ", " ", "c", "h", "a", "t">>,
      <<"V", "o", "i", "c", "e", " ", "L", "o", "u", "n", "g", "e">>,
    NameOfLength(80), <<" ", " ">>>>
OcrTexts ==
  {Join([k \in DOMAIN pick |-> OcrLines[pick[k]]], <<"LF">>) :
     pick \in UNION {[1..n -> 1..Len(OcrLines)] : n \in 0..MaxLines}}

OcrInit ==
  /\ EngineInit(<<<<Idle, "idle">>, <<Idle, "idle">>>>)
  /\ validation = NoValidation
  /\ parser = NoParse
  /\ modal = NoModal
  /\ bits = NoBits
  /\ extract = NoExtract
  /\ ocr = OcrFrame
  /\ deletion = NoDeletion
  /\ logger = NoLogger

OcrGoto(pc) ==
  /\ ocr' = [ocr EXCEPT !.pc = pc]
  /\ UNCHANGED <<engine, validation, parser, modal, bits, extract, deletion,
                 logger>>
OcrCatch(step) ==
  /\ ocr' = [ocr EXCEPT !.pc = "catch", !.failed = step]
  /\ UNCHANGED <<engine, validation, parser, modal, bits, extract, deletion,
                 logger>>

\* line 98 and lines 114-121: fetchImage resolves, or throws on a failed
\* request or a response that is not ok
ImageFetched == ocr.pc = "fetch" /\ OcrGoto("preprocess")
ImageFetchFailed == ocr.pc = "fetch" /\ OcrCatch("fetchImage")
\* line 99 and lines 123-132
ImagePreprocessed == ocr.pc = "preprocess" /\ OcrGoto("ocr")
ImagePreprocessFailed == ocr.pc = "preprocess" /\ OcrCatch("preprocessImage")
\* lines 100-107 and 134-139: the text is read, the template built, summed up
\* and returned
OcrRead ==
  /\ ocr.pc = "ocr"
  /\ \E text \in OcrTexts :
       ocr' = [ocr EXCEPT !.pc = "returned", !.text = text,
                          !.template = summarized(buildTemplateFromText(text))]
  /\ UNCHANGED <<engine, validation, parser, modal, bits, extract, deletion,
                 logger>>
OcrFailed == ocr.pc = "ocr" /\ OcrCatch("runOcr")
\* lines 108-111
FallbackReturned ==
  /\ ocr.pc = "catch"
  /\ ocr' = [ocr EXCEPT !.pc = "returned", !.template = fallbackTemplate]
  /\ UNCHANGED <<engine, validation, parser, modal, bits, extract, deletion,
                 logger>>

OcrNext ==
  \/ ImageFetched
  \/ ImageFetchFailed
  \/ ImagePreprocessed
  \/ ImagePreprocessFailed
  \/ OcrRead
  \/ OcrFailed
  \/ FallbackReturned

OcrSpec == OcrInit /\ [][OcrNext]_vars

(***************************************************************************)
(* DeleteSpec: one call of handleDeleteChannels (src/unnamed/part_002,     *)
(* lines 302-327) on G1, a guild of up to MaxDeletes channels.  The calls  *)
(* of ch.delete are the calls of run 1; the platform fulfils or rejects    *)
(* each of them, in any order.                                             *)
(***************************************************************************)
DeleteInit ==
  /\ \E n \in 0..MaxDeletes :
       guild = [g \in Guilds |->
                  IF g = "G1" THEN LiveGuild(g, 1,
                      11..(10 + n)) ELSE InitGuild(g)]
  /\ run = [r \in Runs |-> Frame(TargetOf[r], Idle, "idle")]
  /\ calls = [r \in Runs |-> <<>>]
  /\ pending = [r \in Runs |-> {}]
  /\ settled = [r \in Runs |-> <<>>]
  /\ validation = NoValidation
  /\ parser = NoParse
  /\ modal = NoModal
  /\ bits = NoBits
  /\ extract = NoExtract
  /\ ocr = NoOcr
  /\ \E inGuild \in BOOLEAN, locked \in {{}, {<<"G1", 12>>}} :
       deletion = DeletionFrame(inGuild, locked)
  /\ logger = NoLogger

\* Promise.all in the place of Promise.allSettled: the join is over when
\* every promise is fulfilled or as soon as one is rejected
allFulfilledOrOneRejected(r) ==
  pending[r] = {} \/ \E k \in 1..Len(calls[r]) : calls[r][k].status = "err"

\* line 325: await Promise.allSettled(channelDeletes)
allSettled(r) == pending[r] = {}

\* lines 303-307
DeleteCommand ==
  /\ deletion.pc = "start"
  /\ deletion' = IF ~deletion.inGuild
                 THEN Goto(Reply(deletion, "Please run this inside a server."),
                           "done")
                 ELSE Goto(Reply(deletion,
                                 "Deleting all channels and categories..."),
                           "fetch")
  /\ UNCHANGED <<engine, validation, parser, modal, bits, extract, ocr,
                 logger>>

\* lines 311-323: the channels are fetched and ch.delete is called on every
\* deletable one, none of the calls awaited
DeletesDispatched ==
  /\ deletion.pc = "fetch"
  /\ LET channels == guild["G1"].channels
         deletable == SelectSeq(channels,
             LAMBDA ch : ch.id \notin deletion.locked)
     IN  /\ deletion' = [deletion EXCEPT
                            !.channels = [k \in 1..Len(channels) |-> channels[k].id],
                            !.channelsDeleted = 0, !.pc = "join"]
         /\ calls' = [calls EXCEPT
                         ![1] = [k \in 1..Len(deletable) |->
                                   Call("handleDeleteChannels:317",
                                        "channel.delete", "G1",
                                        [channel |-> deletable[k].id])]]
         /\ pending' = [pending EXCEPT ![1] = 1..Len(deletable)]
  /\ UNCHANGED <<guild, run, settled, validation, parser, modal, bits,
                 extract, ocr, logger>>

\* the platform deletes the channel of the k-th call; lines 317-319: the
\* callback of then counts it
DeleteFulfilled ==
  /\ deletion.pc = "join"
  /\ \E k \in pending[1] :
       /\ guild' = [guild EXCEPT
                      !["G1"] = Applied(@, calls[1][k],
                          calls[1][k].payload.channel)]
       /\ calls' = [calls EXCEPT ![1][k].status = "ok"]
       /\ pending' = [pending EXCEPT ![1] = @ \ {k}]
       /\ settled' = [settled EXCEPT ![1] = Append(@, k)]
  /\ deletion' = [deletion EXCEPT !.channelsDeleted = @ + 1]
  /\ UNCHANGED <<run, validation, parser, modal, bits, extract, ocr, logger>>

\* the platform rejects the k-th call: the promise of then is rejected, its
\* callback not called
DeleteRejected ==
  /\ deletion.pc = "join"
  /\ \E k \in pending[1] :
       /\ calls' = [calls EXCEPT ![1][k].status = "err",
           ![1][k].err = OtherErr]
       /\ pending' = [pending EXCEPT ![1] = @ \ {k}]
       /\ settled' = [settled EXCEPT ![1] = Append(@, k)]
  /\ UNCHANGED <<guild, run, validation, parser, modal, side>>

\* lines 325-326
DeletesJoined ==
  /\ deletion.pc = "join"
  /\ allSettled(1)
  /\ deletion' = EditReply(deletion,
                           "Delete finished. Channels/categories removed: ",
                           DecimalString(deletion.channelsDeleted))
  /\ UNCHANGED <<engine, validation, parser, modal, bits, extract, ocr,
                 logger>>

DeleteNext ==
  \/ DeleteCommand
  \/ DeletesDispatched
  \/ DeleteFulfilled
  \/ DeleteRejected
  \/ DeletesJoined

DeleteSpec == DeleteInit /\ [][DeleteNext]_vars

(***************************************************************************)
(* LoggerSpec: the change logger (src/src/modules/changeLogger.js) with up *)
(* to MaxEvents file events.  The watcher's events, the timeouts and the   *)
(* two awaits of flush interleave freely.                                  *)
(***************************************************************************)
LoggerInit ==
  /\ EngineInit(<<<<Idle, "idle">>, <<Idle, "idle">>>>)
  /\ validation = NoValidation
  /\ parser = NoParse
  /\ modal = NoModal
  /\ bits = NoBits
  /\ extract = NoExtract
  /\ ocr = NoOcr
  /\ deletion = NoDeletion
  /\ logger = LoggerFrame

\* enqueue, lines 98-105; `inside` is whether the path is under rootDir
enqueue(lg, type, inside) ==
  LET seen == [lg EXCEPT !.seen = @ + 1]
      pushed == [seen EXCEPT !.queue = Append(@, [n |-> seen.seen,
          type |-> type])]
  IN  IF ~inside THEN seen
      ELSE IF pushed.timer = 0
      THEN [pushed EXCEPT !.timer = lg.nextTimer,
                          !.timers = @ \cup {lg.nextTimer},
                          !.nextTimer = @ + 1]
      ELSE pushed

\* flush with `timer = null` left to the end of the function
flushTimerKept(lg) ==
  IF Len(lg.queue) = 0 THEN [lg EXCEPT !.timer = 0]
  ELSE [lg EXCEPT !.flushes = Append(@, [events |-> lg.queue, pc |-> "fetch"]),
                  !.queue = <<>>]

\* flush, lines 73-78: up to the await of the channel
flush(lg) ==
  IF Len(lg.queue) = 0 THEN [lg EXCEPT !.timer = 0]
  ELSE [lg EXCEPT !.timer = 0,
                  !.flushes = Append(@, [events |-> lg.queue, pc |-> "fetch"]),
                  !.queue = <<>>]

\* the watcher reports an add, change or unlink: lines 107-112
FileEvent ==
  /\ logger.seen < MaxEvents
  /\ \E type \in {"add", "change", "unlink"}, inside \in BOOLEAN :
       logger' = enqueue(logger, type, inside)
  /\ UNCHANGED <<engine, validation, parser, modal, bits, extract, ocr,
                 deletion>>

\* a timeout set at line 103 is due and the runtime calls flush
TimerFired ==
  /\ \E t \in logger.timers :
       logger' = flush([logger EXCEPT !.timers = @ \ {t}])
  /\ UNCHANGED <<engine, validation, parser, modal, bits, extract, ocr,
                 deletion>>

\* lines 78-95: the fetch of the channel settles; with a text channel the
\* batch is summed up and sent, else the call returns
ChannelFetched ==
  /\ \E f \in 1..Len(logger.flushes), textBased \in BOOLEAN :
       /\ logger.flushes[f].pc = "fetch"
       /\ logger' = [logger EXCEPT
                       !.flushes[f].pc = IF textBased THEN "send" ELSE "dropped"]
  /\ UNCHANGED <<engine, validation, parser, modal, bits, extract, ocr,
                 deletion>>

\* line 95: channel.send settles, fulfilled or caught
EmbedSent ==
  /\ \E f \in 1..Len(logger.flushes), ok \in BOOLEAN :
       /\ logger.flushes[f].pc = "send"
       /\ logger' = [logger EXCEPT
                       !.flushes[f].pc = IF ok THEN "sent" ELSE "dropped"]
  /\ UNCHANGED <<engine, validation, parser, modal, bits, extract, ocr,
                 deletion>>

LoggerNext ==
  \/ FileEvent
  \/ TimerFired
  \/ ChannelFetched
  \/ EmbedSent

LoggerSpec == LoggerInit /\ [][LoggerNext]_vars

(***************************************************************************)
(* ModalSpec: one modal submission handled by handleModal (src/index.js,   *)
(* lines 267-348).  interaction.guild is G1; the guild to clone is G2.     *)
(* The image analysis is outside the repository's pipeline: its result is  *)
(* any template of ImageTemplates.  A build is a run of the engine on G1.  *)
(***************************************************************************)
\* what buildTemplateFromText returns: categories with channels, no roles
ImageTemplates ==
  {SizedTemplate(dist, -1) :
     dist \in {<<1>>, <<2, 1>>,
               <<MAX_CHANNELS \div 2, MAX_CHANNELS + 1 - (MAX_CHANNELS \div 2)>>}}

\* a guild of MAX_ROLES roles beside its base role, and no channel
CrowdedGuild(g) ==
  [EmptyGuild(g) EXCEPT
     !.roles = @ \o [i \in 1..MAX_ROLES |->
                       [id |-> <<g, i>>, name |-> <<"R">> \o DecimalString(i),
                        color |-> 0, hoist |-> FALSE, mentionable |-> FALSE,
                        permissions |-> 0]],
     !.nextId = MAX_ROLES + 1]

Submissions ==
  {ModalFrame("modal-image", inGuild, analysis, TRUE) :
     inGuild \in BOOLEAN, analysis \in ImageTemplates}
  \cup {ModalFrame(customId, inGuild, JsNull, TRUE) :
          customId \in {"modal-text", "modal-roles"}, inGuild \in BOOLEAN}
  \cup {ModalFrame("modal-clone", inGuild, JsNull, found) :
          inGuild \in BOOLEAN, found \in BOOLEAN}

ModalInit ==
  /\ \E source \in {InitGuild("G2"), CrowdedGuild("G2")} :
       guild = [g \in Guilds |-> IF g = "G2" THEN source ELSE InitGuild(g)]
  /\ run = [r \in Runs |-> Frame(TargetOf[r], Idle, "idle")]
  /\ calls = [r \in Runs |-> <<>>]
  /\ pending = [r \in Runs |-> {}]
  /\ settled = [r \in Runs |-> <<>>]
  /\ validation = NoValidation
  /\ modal \in Submissions
  /\ SideIdle
  /\ \E raw \in Texts : parser = ParserFrame(raw)
  /\ modal.customId \in {"modal-image", "modal-clone"} => parser = NoParse
  /\ modal.customId # "modal-clone" => guild["G2"] = InitGuild("G2")

\* lines 269-271
ImageSubmitted ==
  /\ modal.pc = "submitted" /\ modal.customId = "modal-image"
  /\ modal' = Goto(Reply(modal, "Reading image..."), "analyze")
  /\ UNCHANGED <<engine, validation, parser, side>>

\* line 272: const template = await analyzeImageStub(imageUrl)
ImageAnalyzed ==
  /\ modal.pc = "analyze"
  /\ modal' = [modal EXCEPT !.template = modal.analysis, !.pc = "validate"]
  /\ UNCHANGED <<engine, validation, parser, side>>

\* lines 287-293 and 325-331
TextSubmitted ==
  /\ modal.pc = "submitted" /\ modal.customId \in {"modal-text", "modal-roles"}
  /\ modal' = IF ~modal.inGuild
              THEN Goto(Reply(modal, "Please run this inside a server."), "done")
              ELSE Goto(Reply(modal, IF modal.customId = "modal-text"
                                     THEN "Reading structure..."
                                     ELSE "Creating roles..."), "parse")
  /\ UNCHANGED <<engine, validation, parser, side>>

\* lines 294 and 333: parseTextStructure runs, a step at a time
TextParsing ==
  /\ modal.pc = "parse" /\ parser.status # "returned"
  /\ \/ Tick
     \/ ParseCalled
     \/ ParseRoleLine
     \/ ParseCategoryLine
     \/ ParseChannelLine
     \/ ParseReturned

\* line 294: const template = parseTextStructure(structure)
TextParsed ==
  /\ modal.pc = "parse" /\ parser.status = "returned"
  /\ modal.customId = "modal-text"
  /\ modal' = [modal EXCEPT !.template = parser.template, !.pc = "validate"]
  /\ UNCHANGED <<engine, validation, parser, side>>

\* lines 305-307
CloneSubmitted ==
  /\ modal.pc = "submitted" /\ modal.customId = "modal-clone"
  /\ modal' = Goto(Reply(modal, "Cloning server..."), "fetch")
  /\ UNCHANGED <<engine, validation, parser, side>>

\* lines 309-310: the guild is fetched and extracted
CloneExtracted ==
  /\ modal.pc = "fetch" /\ modal.found
  /\ modal' = [modal EXCEPT !.template = fromGuild("G2", guild["G2"]),
                            !.pc = "validate"]
  /\ UNCHANGED <<engine, validation, parser, side>>

\* lines 309, 318-321: client.guilds.fetch rejects with code 10004
CloneNotFound ==
  /\ modal.pc = "fetch" /\ ~modal.found
  /\ modal' = EditReply(modal, "Clone failed: ", "Server not found or bot not in it.")
  /\ UNCHANGED <<engine, validation, parser, side>>

\* lines 273, 295, 311 when ensureTemplateSafe throws: the catch of lines
\* 340-346, for a clone the one of lines 318-321
TemplateRejected ==
  /\ modal.pc = "validate"
  /\ ensureTemplateSafe(modal.template) # Returned
  /\ validation' = [template |-> modal.template,
                    result |-> ensureTemplateSafe(modal.template)]
  /\ modal' = EditReply(modal,
                        IF modal.customId = "modal-clone" THEN "Clone failed: "
                        ELSE "Error: ",
                        ensureTemplateSafe(modal.template))
  /\ UNCHANGED <<engine, parser, side>>

\* lines 274-277 and 312-315: the template is safe and there is no guild
TemplateHeld ==
  /\ modal.pc = "validate" /\ ~modal.inGuild
  /\ ensureTemplateSafe(modal.template) = Returned
  /\ validation' = [template |-> modal.template, result |-> Returned]
  /\ modal' = EditReply(modal, "Template ready. Please run this in a server.", "")
  /\ UNCHANGED <<engine, parser, side>>

\* serverBuilder.js line 5: template.roles || []
withRoles(template) ==
  IF Has(template, "roles") THEN template
  ELSE [summary |-> template.summary, categories |-> template.categories,
        roles |-> <<>>]

\* lines 279, 297, 316: the template is safe and the build is called
BuildCalled ==
  /\ modal.pc = "validate" /\ modal.inGuild
  /\ ensureTemplateSafe(modal.template) = Returned
  /\ validation' = [template |-> modal.template, result |-> Returned]
  /\ modal' = Goto(modal, "build")
  /\ run' = [run EXCEPT ![1] = Frame("G1", withRoles(modal.template), "start")]
  /\ UNCHANGED <<guild, calls, pending, settled, parser, side>>

\* lines 280, 298, 317
BuildReturned ==
  /\ modal.pc = "build" /\ run[1].pc = "done"
  /\ modal' = EditReply(modal, "Server built.", "")
  /\ UNCHANGED <<engine, validation, parser, side>>

\* lines 281-283, 299-301, 318-321
BuildThrew ==
  /\ modal.pc = "build" /\ run[1].pc = "failed"
  /\ modal' = EditReply(modal,
                        IF modal.customId = "modal-clone" THEN "Clone failed: "
                        ELSE "Build failed: ",
                        "err.message")
  /\ UNCHANGED <<engine, validation, parser, side>>

\* lines 333-334: const parsed = parseTextStructure(rolesText); createRoles
RolesParsed ==
  /\ modal.pc = "parse" /\ parser.status = "returned"
  /\ modal.customId = "modal-roles"
  /\ modal' = [modal EXCEPT !.template = parser.template, !.roleIdx = 1,
                            !.pc = "createRoles"]
  /\ UNCHANGED <<engine, validation, parser, side>>

\* normalizePermissionsInput, lines 366-386, on a decimal string or undefined
normalizePermissionsInput(input) == IF input = -1 THEN 0 ELSE input

\* createRoles, lines 352-360: one turn of the loop, up to the await
CreateRole ==
  /\ modal.pc = "createRoles" /\ modal.roleIdx <= Len(modal.template.roles)
  /\ LET roleData == modal.template.roles[modal.roleIdx]
         call == Call("createRoles:354", "roles.create", "G1",
                      [name |-> roleData.name, color |-> roleData.color,
                       hoist |-> roleData.hoist,
                       mentionable |-> roleData.mentionable,
                       permissions |-> normalizePermissionsInput(roleData.permissions)])
     IN  /\ calls' = [calls EXCEPT ![1] = Append(@, call)]
         /\ pending' = [pending EXCEPT ![1] = @ \cup {Len(calls[1]) + 1}]
  /\ modal' = Goto(modal, "createRoles_wait")
  /\ UNCHANGED <<guild, run, settled, validation, parser, side>>

\* createRoles, line 361: created.push(role)
RoleImported ==
  /\ modal.pc = "createRoles_wait" /\ settled[1] # <<>>
  /\ Resumed(1).status = "ok"
  /\ settled' = [settled EXCEPT ![1] = Tail(@)]
  /\ modal' = [modal EXCEPT !.roleIdx = @ + 1, !.pc = "createRoles"]
  /\ UNCHANGED <<guild, run, calls, pending, validation, parser, side>>

\* lines 336-338: guild.roles.create rejects
RoleImportFailed ==
  /\ modal.pc = "createRoles_wait" /\ settled[1] # <<>>
  /\ Resumed(1).status = "err"
  /\ settled' = [settled EXCEPT ![1] = Tail(@)]
  /\ modal' = EditReply(modal, "Could not create roles: ", "err.message")
  /\ UNCHANGED <<guild, run, calls, pending, validation, parser, side>>

\* lines 334-335: createRoles returns
RolesCreated ==
  /\ modal.pc = "createRoles" /\ modal.roleIdx > Len(modal.template.roles)
  /\ modal' = EditReply(modal, "Created roles.", "")
  /\ UNCHANGED <<engine, validation, parser, side>>

ModalNext ==
  \/ ImageSubmitted
  \/ ImageAnalyzed
  \/ TextSubmitted
  \/ TextParsing
  \/ TextParsed
  \/ CloneSubmitted
  \/ CloneExtracted
  \/ CloneNotFound
  \/ TemplateRejected
  \/ TemplateHeld
  \/ BuildCalled
  \/ BuildReturned
  \/ BuildThrew
  \/ RolesParsed
  \/ CreateRole
  \/ RoleImported
  \/ RoleImportFailed
  \/ RolesCreated
  \/ Next

ModalSpec == ModalInit /\ [][ModalNext]_vars

(***************************************************************************)
(* Reading a run's call log against its template.                          *)
(***************************************************************************)
Roles(r) == run[r].template.roles
Categories(r) == run[r].template.categories
Invoked(r) == run[r].pc \notin {"idle", "start"}

IsPrefix(s, t) == Len(s) <= Len(t) /\ \A i \in 1..Len(s) : s[i] = t[i]
Last(S) == CHOOSE k \in S : \A j \in S : j <= k

RoleCalls(r) == SelectSeq(calls[r], LAMBDA c : c.op = "roles.create")
IsStructureCall(c) == c.site \in {"build:9", "createChannelSafe:81"}
IsChannelCall(c) == c.site \in {"createChannelSafe:81", "createChannelSafe:87"}
Failed(c) == c.status = "err"
NoFailure(r) == \A k \in 1..Len(calls[r]) : calls[r][k].status # "err"

\* the RoleSpecs that are not flagged isEveryone, in template order
NonBaseRoles(r) == SelectSeq(Roles(r), LAMBDA tpl : ~tpl.isEveryone)

\* the categories and channels of a template in template order: <<c, 0>> is
\* category c, <<c, j>> the j-th channel of category c
RECURSIVE StructureFrom(_, _)
StructureFrom(cats, c) ==
  IF c > Len(cats) THEN <<>>
  ELSE <<<<c, 0>>>> \o [j \in 1..Len(cats[c].channels) |-> <<c, j>>]
       \o StructureFrom(cats, c + 1)
Structure(r) == StructureFrom(Categories(r), 1)
ChannelsOf(r) == SelectSeq(Structure(r), LAMBDA e : e[2] > 0)
SpecAt(r, e) == Categories(r)[e[1]].channels[e[2]]

\* C1: no category or channel creation call is issued before every role
\* creation call of the run has completed: when a channels.create call is in
\* the log, every roles.create call stands before it and has succeeded, there
\* is one for every RoleSpec that is not the base role, and the
\* refId -> liveRoleId map has a key for 'everyone' and for every RoleSpec.
C1_RolePhaseFirst ==
  \A r \in Runs :
    LET first == {k \in 1..Len(calls[r]) : calls[r][k].op = "channels.create"}
    IN  first # {} =>
          /\ \A j \in 1..Len(calls[r]) :
               calls[r][j].op = "roles.create" =>
                 /\ calls[r][j].status = "ok"
                 /\ \A k \in first : j < k
          /\ Len(RoleCalls(r)) = Len(NonBaseRoles(r))
          /\ MapHas(run[r].roleIdMap, Sentinel)
          /\ \A i \in 1..Len(Roles(r)) : MapHas(run[r].roleIdMap, Roles(r)[i].refId)

C1_Witness ==
  \E r \in Runs :
    /\ Len(RoleCalls(r)) >= 2
    /\ \E k \in 1..Len(calls[r]) : calls[r][k].site = "createChannelSafe:81"

\* C2: the role creation calls of a run are, in order, one call for each
\* RoleSpec not flagged isEveryone, carrying its name, colour, hoist,
\* mentionable and permissions; once the role phase is over without a failure
\* there are as many calls as such RoleSpecs; and a RoleSpec the run has passed
\* is mapped to the target's base role exactly when it is flagged isEveryone.
C2_OneCallPerOtherRole ==
  \A r \in Runs :
    LET rc == RoleCalls(r)
        nb == NonBaseRoles(r)
    IN
    /\ Len(rc) <= Len(nb)
    /\ \A j \in 1..Len(rc) :
         LET p == rc[j].payload
             tpl == nb[j]
         IN  /\ p.name = tpl.name /\ p.color = tpl.color
             /\ p.hoist = tpl.hoist /\ p.mentionable = tpl.mentionable
             /\ p.permissions = tpl.permissions
    /\ (NoFailure(r) /\ run[r].pc \notin {"idle", "start", "role_wait"})
         => Len(rc) = Len(nb)
    /\ Invoked(r) =>
         \A i \in 1..Len(Roles(r)) :
           i < run[r].tplIdx =>
             /\ MapHas(run[r].roleIdMap, Roles(r)[i].refId)
             /\ (run[r].roleIdMap[Roles(r)[i].refId] = EveryoneId(TargetOf[r]))
                  <=> Roles(r)[i].isEveryone

C2_Witness ==
  \E r \in Runs :
    /\ run[r].pc = "done"
    /\ \E i \in 1..Len(Roles(r)) : Roles(r)[i].isEveryone
    /\ Len(RoleCalls(r)) >= 2
    /\ Roles(r)[1].refId # EveryoneId(TargetOf[r])

StructureCalls(r) == SelectSeq(calls[r], IsStructureCall)

\* the name a creation call carries for a name of the template
CategoryNameOf(cat) ==
  sanitizeName(OrElse(cat.name, <<"C", "a", "t", "e", "g", "o", "r", "y">>))
ChannelNameOf(ch) ==
  sanitizeName(OrElse(ch.name, <<"c", "h", "a", "n", "n", "e", "l">>))

\* C3: the first creation calls for categories and channels follow the
\* template: category 1, its channels in order, category 2, its channels, ...;
\* one call per CategorySpec; and every channel creation call carries as parent
\* the id returned by the latest category creation call, which has succeeded.
C3_StructureInOrder ==
  \A r \in Runs :
    LET sc == StructureCalls(r)
        ex == Structure(r)
    IN  /\ Len(sc) <= Len(ex)
        /\ \A n \in 1..Len(sc) :
             IF ex[n][2] = 0
             THEN /\ sc[n].site = "build:9"
                  /\ sc[n].payload.type = "GuildCategory"
                  /\ sc[n].payload.name = CategoryNameOf(Categories(r)[ex[n][1]])
             ELSE /\ sc[n].site = "createChannelSafe:81"
                  /\ sc[n].payload.type =
                       (IF SpecAt(r, ex[n]).type = "voice" THEN "GuildVoice"
                        ELSE "GuildText")
                  /\ sc[n].payload.name = ChannelNameOf(SpecAt(r, ex[n]))
        /\ (NoFailure(r) /\ run[r].pc = "done") => Len(sc) = Len(ex)
        /\ LET categoryCalls == {j \in 1..Len(calls[r]) : calls[r][j].site = "build:9"}
           IN  \A k \in 1..Len(calls[r]) :
                 IsChannelCall(calls[r][k]) =>
                   LET before == {j \in categoryCalls : j < k}
                       latest == calls[r][Last(before)]
                   IN  /\ before # {}
                       /\ latest.status = "ok"
                       /\ calls[r][k].payload.parent = latest.id

C3_Witness ==
  \E r \in Runs :
    /\ run[r].pc = "done"
    /\ Len(Categories(r)) >= 2
    /\ \A c \in 1..Len(Categories(r)) : Len(Categories(r)[c].channels) >= 2
    /\ Len(StructureCalls(r)) = Len(Structure(r))

\* a roleRefId resolves when it is the sentinel of the base role or the refId
\* of a RoleSpec of the template
Resolves(r, ref) ==
  ref = Sentinel \/ \E i \in 1..Len(Roles(r)) : Roles(r)[i].refId = ref
OverwritesOf(ch) == IF ArrayIsArray(ch.overwrites) THEN ch.overwrites[1] ELSE <<>>
Resolvable(r, ch) ==
  SelectSeq(OverwritesOf(ch), LAMBDA ow : Resolves(r, ow.roleRefId))
CreatedChannels(r) ==
  {k \in 1..Len(calls[r]) : IsChannelCall(calls[r][k]) /\ calls[r][k].status = "ok"}
OverwriteCalls(r) ==
  SelectSeq(calls[r], LAMBDA c : c.op = "permissionOverwrites.create")
For(ows, id) == SelectSeq(ows, LAMBDA c : c.payload.channel = id)
\* the run has gone past the channel created by its k-th call
Past(r, k) ==
  \/ run[r].pc = "done"
  \/ \E j \in (k + 1)..Len(calls[r]) : calls[r][j].op = "channels.create"

\* C4: the overwrite calls for a created channel are, in order, one call for
\* each overwrite entry of its ChannelSpec whose roleRefId resolves, carrying
\* the mapped role and the entry's allow and deny; an entry that does not
\* resolve gets no call and raises no error (a run fails only on a rejected
\* call); and once the run has gone past the channel every resolving entry has
\* had its call.
C4_UnresolvedSkipped ==
  \A r \in Runs :
    LET created == CreatedChannels(r)
        specs == ChannelsOf(r)
        ows == OverwriteCalls(r)
        flawless == NoFailure(r)
    IN
    /\ \A k \in created :
         LET n == Cardinality({j \in created : j <= k})
             ch == SpecAt(r, specs[n])
             exp == Resolvable(r, ch)
             got == For(ows, calls[r][k].id)
         IN  /\ Len(got) <= Len(exp)
             /\ \A i \in 1..Len(got) :
                  /\ got[i].payload.role = run[r].roleIdMap[exp[i].roleRefId]
                  /\ got[i].payload.allow = exp[i].allow
                  /\ got[i].payload.deny = exp[i].deny
             /\ (flawless /\ Past(r, k)) => Len(got) = Len(exp)
    /\ run[r].pc = "failed" =>
         calls[r] # <<>> /\ Failed(calls[r][Len(calls[r])])

C4_Witness ==
  \E r \in Runs :
    /\ run[r].pc = "done"
    /\ \E k \in CreatedChannels(r) :
         LET n == Cardinality({j \in CreatedChannels(r) : j <= k})
             ows == OverwritesOf(SpecAt(r, ChannelsOf(r)[n]))
         IN  /\ Len(ows) >= 2
             /\ ~Resolves(r, ows[1].roleRefId)
             /\ Resolves(r, ows[2].roleRefId)
             /\ Len(For(OverwriteCalls(r), calls[r][k].id)) = 1
             /\ \E j \in CreatedChannels(r) : j > k

TopicRejected(c) ==
  c.site = "createChannelSafe:81" /\ Failed(c) /\ c.err.errorsTopic
SameChannel(c, d) ==
  /\ d.op = "channels.create" /\ d.payload.type # "GuildCategory"
  /\ d.payload.name = c.payload.name /\ d.payload.parent = c.payload.parent

\* C5: a channel creation call rejected for its topic is followed, as soon as
\* the run resumes, by one more creation call whose payload is the rejected
\* payload without the topic key; these two are the only creation calls for
\* that channel; when the second succeeds the guild has the channel, with no
\* topic and with the name, type, parent, nsfw flag and slow mode of the
\* payload, and the run goes on: it fails only on a later call and is done
\* when nothing is left to create.
C5_TopicRetry ==
  \A r \in Runs : \A k \in 1..Len(calls[r]) :
    TopicRejected(calls[r][k]) =>
      IF k = Len(calls[r])
      THEN settled[r] = <<k>> /\ run[r].pc = "chan_wait"
      ELSE LET c == calls[r][k]
               d == calls[r][k + 1]
           IN  /\ d.op = "channels.create"
               /\ DOMAIN d.payload = (DOMAIN c.payload) \ {"topic"}
               /\ \A key \in DOMAIN d.payload : d.payload[key] = c.payload[key]
               /\ {j \in 1..Len(calls[r]) : SameChannel(c, calls[r][j])} = {k, k + 1}
               /\ d.status = "ok" =>
                    /\ \E i \in 1..Len(guild[TargetOf[r]].channels) :
                         LET ch == guild[TargetOf[r]].channels[i]
                         IN  /\ ch.id = d.id /\ ch.topic = <<>>
                             /\ ch.name = c.payload.name /\ ch.type = c.payload.type
                             /\ ch.parent = c.payload.parent
                             /\ ch.nsfw = c.payload.nsfw
                             /\ ch.rateLimitPerUser = c.payload.rateLimitPerUser
                    /\ run[r].pc = "failed" => Len(calls[r]) > k + 1
                    /\ (k + 1 = Len(calls[r]) /\ settled[r] = <<>>)
                         => run[r].pc = "done"

C5_Witness ==
  \E r \in Runs : \E k \in 1..(Len(calls[r]) - 2) :
    /\ TopicRejected(calls[r][k])
    /\ calls[r][k + 1].status = "ok"
    /\ run[r].pc = "done"

\* C6: a channel creation call rejected for a reason other than its topic is
\* the last call of its run: no second creation call is issued for the
\* channel, and once the run has resumed it has failed with that error.
C6_RetryOnlyForTopic ==
  \A r \in Runs : \A k \in 1..Len(calls[r]) :
    LET c == calls[r][k]
    IN  (c.site = "createChannelSafe:81" /\ Failed(c) /\ ~c.err.errorsTopic) =>
          /\ k = Len(calls[r])
          /\ settled[r] = <<>> => (run[r].pc = "failed" /\ run[r].error = c.err)

\* the topic retry has taken on the failed k-th call of run r
Retried(r, k) ==
  /\ k < Len(calls[r])
  /\ calls[r][k].site = "createChannelSafe:81"
  /\ calls[r][k + 1].site = "createChannelSafe:87"

\* C7: a failed call that the topic retry does not take on is the last call
\* the run ever issues: it is the last entry of the log, nothing is
\* outstanding, and once the run has resumed it has failed with the error of
\* that call; a failed run has no call left outstanding or unconsumed.
C7_HaltOnFailure ==
  \A r \in Runs :
    /\ \A k \in 1..Len(calls[r]) :
         (Failed(calls[r][k]) /\ ~Retried(r, k)) =>
           /\ k = Len(calls[r])
           /\ pending[r] = {}
           /\ \/ settled[r] = <<k>> /\ run[r].pc \in WaitPcs
              \/ /\ settled[r] = <<>>
                 /\ run[r].pc = "failed"
                 /\ run[r].error = calls[r][k].err
    /\ run[r].pc = "failed" => pending[r] = {} /\ settled[r] = <<>>

\* the run has failed on an overwrite call with channels left to create
C7_Witness ==
  \E r \in Runs :
    /\ run[r].pc = "failed"
    /\ calls[r][Len(calls[r])].op = "permissionOverwrites.create"
    /\ run[r].chIdx < Len(Categories(r)[run[r].catIdx].channels)
    /\ run[r].catIdx < Len(Categories(r))

CreationOps == {"roles.create", "channels.create", "permissionOverwrites.create"}
RoleIds(g) == {guild[g].roles[i].id : i \in 1..Len(guild[g].roles)}
ChannelIds(g) == {guild[g].channels[i].id : i \in 1..Len(guild[g].channels)}
HasRole(g, id) == id \in RoleIds(g)
HasChannel(g, id) == id \in ChannelIds(g)

\* C8: every call of a run is a creation call; the roles and channels the
\* guild had before the run are still there, unchanged and in their places;
\* and every role, category and channel a call of the run has created is
\* still in the guild, whether the run is under way, done or failed.
C8_AdditiveOnly ==
  \A r \in Runs :
    LET g == TargetOf[r]
        before == InitGuild(g)
        roleIds == RoleIds(g)
        channelIds == ChannelIds(g)
    IN  /\ \A k \in 1..Len(calls[r]) : calls[r][k].op \in CreationOps
        /\ IsPrefix(before.roles, guild[g].roles)
        /\ IsPrefix(before.channels, guild[g].channels)
        /\ \A k \in 1..Len(calls[r]) :
             calls[r][k].status = "ok" =>
               /\ calls[r][k].op = "roles.create" => calls[r][k].id \in roleIds
               /\ calls[r][k].op = "channels.create" => calls[r][k].id \in channelIds

\* the run has failed after it created a role, a category and a channel
C8_Witness ==
  \E r \in Runs :
    /\ run[r].pc = "failed"
    /\ \E k \in 1..Len(calls[r]) :
         calls[r][k].op = "roles.create" /\ calls[r][k].status = "ok"
    /\ \E k \in CreatedChannels(r) : HasChannel(TargetOf[r], calls[r][k].id)

\* C9: at most one call of a run is outstanding at any time, and a call is
\* issued only after every earlier call of the run has been settled and its
\* result consumed by the run.
C9_OneCallAtATime ==
  \A r \in Runs :
    /\ Cardinality(pending[r]) + Len(settled[r]) <= 1
    /\ \A k \in 1..(Len(calls[r]) - 1) : calls[r][k].status # "pending"
    /\ \A k \in pending[r] : k = Len(calls[r]) /\ calls[r][k].status = "pending"
    /\ \A i \in 1..Len(settled[r]) : settled[r][i] = Len(calls[r])

\* an overwrite call is outstanding after two overwrite calls were settled
C9_Witness ==
  \E r \in Runs : \E k \in pending[r] :
    /\ calls[r][k].op = "permissionOverwrites.create"
    /\ Len(SelectSeq(calls[r], LAMBDA c : c.op = "permissionOverwrites.create")) >= 3

\* the guild that the settled calls cs, carried out in order, make of gs
RECURSIVE Replay(_, _, _)
Replay(gs, cs, k) ==
  IF k > Len(cs) THEN gs
  ELSE Replay(IF cs[k].status = "ok" THEN Applied(gs, cs[k], cs[k].id) ELSE gs,
              cs, k + 1)

Creations(r) ==
  SelectSeq(calls[r],
            LAMBDA c : c.status = "ok" /\ c.op \in {"roles.create", "channels.create"})

\* C10: with two runs interleaved on two guilds, every call of a run goes to
\* its own target; the values of its refId -> liveRoleId map are roles of its
\* target; every channel it creates has a category of its target as parent;
\* every overwrite it issues names a channel and a role of its target; and the
\* target is in the state the run alone produces: its calls are the ones its
\* template determines (roles, structure and overwrites in template order),
\* the ids it is given are the target's next ids in sequence, and the guild is
\* its initial state with exactly the successful calls of that run applied.
C10_RunsIndependent ==
  /\ \A r \in Runs :
       LET g == TargetOf[r]
       IN  /\ \A key \in DOMAIN run[r].roleIdMap : HasRole(g, run[r].roleIdMap[key])
           /\ \A k \in 1..Len(calls[r]) :
                LET c == calls[r][k]
                IN  /\ c.guild = g
                    /\ IsChannelCall(c) =>
                         \E i \in 1..Len(guild[g].channels) :
                           /\ guild[g].channels[i].id = c.payload.parent
                           /\ guild[g].channels[i].type = "GuildCategory"
                    /\ c.op = "permissionOverwrites.create" =>
                         HasChannel(g, c.payload.channel) /\ HasRole(g, c.payload.role)
           /\ \A j \in 1..Len(Creations(r)) :
                Creations(r)[j].id = <<g, InitGuild(g).nextId + j - 1>>
           /\ guild[g] = Replay(InitGuild(g), calls[r], 1)
  /\ C2_OneCallPerOtherRole
  /\ C3_StructureInOrder
  /\ C4_UnresolvedSkipped

\* both runs are suspended at once, each on an overwrite call, each after it
\* created a role, a category and a channel in its own guild
C10_Witness ==
  /\ \A r \in Runs :
       /\ run[r].pc = "ow_wait" /\ pending[r] # {}
       /\ Len(RoleCalls(r)) >= 1
       /\ CreatedChannels(r) # {}
  /\ run[1].template.summary # run[2].template.summary

\* the first attempts and the retries among the calls of run r
FirstAttempts(r) == {k \in 1..Len(calls[r]) : calls[r][k].site = "createChannelSafe:81"}
Retries(r) == {k \in 1..Len(calls[r]) : calls[r][k].site = "createChannelSafe:87"}

\* C29: a ChannelSpec gets at most two creation calls: one first attempt,
\* and at most one retry right after it; the retry follows only a failed
\* first attempt whose payload carries a non-empty topic, so never that of a
\* voice channel; a failed retry is the last call of the run, which fails
\* with the error of the retry.
C29_RetryAtMostOnce ==
  \A r \in Runs :
    /\ Cardinality(FirstAttempts(r)) <= Len(ChannelsOf(r))
    /\ \A k \in FirstAttempts(r) :
         LET nth == Cardinality({j \in FirstAttempts(r) : j <= k})
             spec == SpecAt(r, ChannelsOf(r)[nth])
         IN  calls[r][k].payload.name =
               sanitizeName(OrElse(spec.name, <<"c", "h", "a", "n", "n", "e", "l">>))
    /\ \A k \in Retries(r) :
         /\ k - 1 \in FirstAttempts(r)
         /\ k + 1 \notin Retries(r)
         /\ Failed(calls[r][k - 1])
         /\ "topic" \in DOMAIN calls[r][k - 1].payload
         /\ calls[r][k - 1].payload.topic # <<>>
         /\ calls[r][k - 1].payload.type # "GuildVoice"
         /\ Failed(calls[r][k]) =>
              /\ k = Len(calls[r])
              /\ settled[r] = <<>> =>
                   (run[r].pc = "failed" /\ run[r].error = calls[r][k].err)

\* a first attempt and its retry were both rejected, and the run has failed
\* with the error of the retry
C29_Witness ==
  \E r \in Runs : \E k \in Retries(r) :
    /\ Failed(calls[r][k]) /\ k = Len(calls[r])
    /\ run[r].pc = "failed" /\ run[r].error = calls[r][k].err
    /\ calls[r][k - 1].err # calls[r][k].err

(***************************************************************************)
(* Claims about the validator, under ValidateSpec.                         *)
(***************************************************************************)
Validated == validation.result \notin {"idle", "called"}
Failed12 == validation.result # Returned

\* the channels of a template, each as <<category, position>>
ChannelSlots(t) ==
  UNION {{<<c, j>> : j \in 1..Len(t.categories[c].channels)} :
           c \in {d \in 1..Len(t.categories) : Has(t.categories[d], "channels")}}
RoleSlots(t) ==
  IF Has(t, "roles") /\ IsArray(t.roles) THEN DOMAIN t.roles ELSE {}
CategoriesIsSequence(t) ==
  t # JsNull /\ Has(t, "categories") /\ IsArray(t.categories)

\* C12: for a template whose categories is a sequence, the validator fails
\* exactly when the template has more than 500 channels in all, however they
\* are spread over the categories, or more than 200 roles.
C12_CeilingsExact ==
  (Validated /\ CategoriesIsSequence(validation.template)) =>
    (Failed12 <=>
       \/ Cardinality(ChannelSlots(validation.template)) > 500
       \/ Cardinality(RoleSlots(validation.template)) > 200)

\* a template of exactly 500 channels in more than one category and exactly
\* 200 roles was accepted
C12_Witness ==
  /\ validation.result = Returned
  /\ Len(validation.template.categories) > 1
  /\ \A c \in 1..Len(validation.template.categories) :
       Has(validation.template.categories[c], "channels")
       /\ Len(validation.template.categories[c].channels) \in 1..499
  /\ Cardinality(ChannelSlots(validation.template)) = 500
  /\ Cardinality(RoleSlots(validation.template)) = 200

\* C13: the validator fails with the template-invalid error whenever the
\* template is absent or its categories field is missing or is not a
\* sequence; nothing is counted before (no other error comes first).
C13_ShapeFirst ==
  (Validated /\ ~CategoriesIsSequence(validation.template)) =>
    validation.result = TemplateInvalid

\* an object without an array of categories, and with more roles than the
\* ceiling, was rejected as invalid
C13_Witness ==
  /\ validation.result = TemplateInvalid
  /\ validation.template # JsNull
  /\ Cardinality(RoleSlots(validation.template)) > 200

(***************************************************************************)
(* Claims about the parser, under ParseSpec.                               *)
(***************************************************************************)
\* the names, and under each the channel names and types, of a template
Skeleton(t) ==
  [c \in 1..Len(t.categories) |->
     [name |-> t.categories[c].name,
      channels |-> [j \in 1..Len(t.categories[c].channels) |->
                      <<t.categories[c].channels[j].name,
                        t.categories[c].channels[j].type>>]]]

\* C15 (as claimed): in every template the parser returns, the refIds of the
\* roles are pairwise distinct, also when several role lines are parsed
\* within one millisecond.
C15_RefIdsDistinct ==
  \A n \in 1..Len(parser.returned) :
    LET roles == parser.returned[n].roles
    IN  \A i, j \in 1..Len(roles) : i # j => roles[i].refId # roles[j].refId

\* C16: two calls of the parser on the same text return the same sequence of
\* category names and, under each, the same sequence of channel names and
\* types, whatever the clock and whatever the calls before.
C16_ParseDeterministic ==
  \A m, n \in 1..Len(parser.returned) :
    Skeleton(parser.returned[m]) = Skeleton(parser.returned[n])

\* the second call returned, at another time than the first (its roles carry
\* other refIds), a template of the same categories and channels
C16_Witness ==
  /\ Len(parser.returned) = 2
  /\ parser.returned[1].roles # parser.returned[2].roles
  /\ \E c \in 1..Len(parser.returned[2].categories) :
       Len(parser.returned[2].categories[c].channels) > 0

\* C17: the parser raises no error on any text, the empty one and one without
\* a recognizable line included, and the validator accepts what it returns
\* when that has no categories and no roles.
C17_ParseTotal ==
  /\ parser.status # "threw"
  /\ \A n \in 1..Len(parser.returned) :
       LET t == parser.returned[n]
       IN  /\ CategoriesIsSequence(t)
           /\ (Len(t.categories) = 0 /\ Len(t.roles) = 0) =>
                ensureTemplateSafe(t) = Returned

\* a text of a few lines, none of them recognized, came back as a template
\* without categories and roles
C17_Witness ==
  /\ parser.status = "returned"
  /\ Len(parser.lines) > 0
  /\ parser.template.categories = <<>> /\ parser.template.roles = <<>>
  /\ ensureTemplateSafe(parser.template) = Returned

\* the tests the claims name, on a line as the loop reads it
HasColour(line) == isRoleLine(line)
ChannelTest(line) == looksLikeChannel(trim(line))
Annotated(line) == \E i \in 1..Len(line) : StartsAt(line, i, CategoryMark)
Handled(i) == parser.handled[i]

Openers == {i \in 1..Len(parser.handled) : Handled(i) = "category"}
ChannelLines == {i \in 1..Len(parser.handled) : Handled(i) = "channel"}
Leading == {i \in ChannelLines : \A o \in Openers : i < o}
\* the place in template.categories of the category a channel line belongs to
PlaceOf(i) ==
  Cardinality({o \in Openers : o < i}) + (IF Leading # {} THEN 1 ELSE 0)

\* C19: every channel is in the category opened by the latest category line
\* before it; channels before any category line are in one implicit category
\* opened for them; no channel is dropped; role lines change nothing of this.
C19_ChannelsUnderLatest ==
  parser.status \in {"loop", "returned"} =>
    LET categories == parser.template.categories
    IN  /\ Len(categories) = Cardinality(Openers) + (IF Leading # {} THEN 1 ELSE 0)
        /\ parser.status = "loop" =>
             parser.currentCategory = Len(categories)
        /\ Leading # {} => categories[1].name = <<"G", "e", "n", "e", "r",
            "a", "l">>
        /\ \A c \in 1..Len(categories) :
             LET under == {i \in ChannelLines : PlaceOf(i) = c}
             IN  /\ Len(categories[c].channels) = Cardinality(under)
                 /\ \A k \in 1..Cardinality(under) :
                      categories[c].channels[k] =
                        buildChannelFromLine(normalizeLine(trim(parser.lines[Nth(under, k)])))

\* a channel went to the implicit category, a role line followed, and the
\* next channel went to the same category
C19_Witness ==
  /\ parser.status = "returned"
  /\ parser.handled = <<"channel", "role", "channel">>
  /\ Len(parser.template.categories) = 1
  /\ Len(parser.template.categories[1].channels) = 2

\* a text of one line `<name> | Color: #RRGGBB | Permissions: [..]`
RoleLineParts == SplitOn(parser.raw, "|")
ColourPart == toLowerCase(trim(RoleLineParts[2]))
PermissionsPart == toLowerCase(trim(RoleLineParts[3]))
ColourLabel ==
  <<"c", "o", "l", "o", "r", ":", " ", "#">>
PermissionsLabel ==
  <<"p", "e", "r", "m", "i", "s", "s", "i", "o", "n", "s", ":", " ", "[">>
IsRoleLineText ==
  /\ ~Includes(parser.raw, <<"LF">>)
  /\ Len(RoleLineParts) = 3
  /\ trim(RoleLineParts[1]) # <<>>
  /\ Len(ColourPart) = 14
  /\ StartsAt(ColourPart, 1, ColourLabel)
  /\ \A k \in 9..14 : IsHex(ColourPart[k])
  /\ StartsAt(PermissionsPart, 1, PermissionsLabel)
  /\ PermissionsPart[Len(PermissionsPart)] = "]"

\* C20 (as claimed): such a text parses to no category and one role, named by
\* the bare name before the first pipe, coloured by the value of RRGGBB, with
\* the OR of the listed permission bits.
C20_RoleLineParsed ==
  (parser.status = "returned" /\ IsRoleLineText) =>
    LET t == parser.template
    IN  /\ Len(t.categories) = 0
        /\ Len(t.roles) = 1
        /\ t.roles[1].name = trim(RoleLineParts[1])
        /\ t.roles[1].color = ParseHex(SubSeq(trim(RoleLineParts[2]), 9, 14))
        /\ t.roles[1].permissions =
             permissionsToBitfield(extractPermissions(RoleLineParts[3]))

\* the OR of the bits of the listed permissions
ListedBits(perms) ==
  BitfieldSum({perms[k][2] : k \in 1..Len(perms)})

\* C21 (as claimed): a category line followed by an indented line
\* `#<name> | Type: text | Permissions: [..]` parses to exactly one category
\* of that name with exactly one text channel named <name>, whose overwrites
\* are one entry for the base role, allow the OR of the listed bits, deny 0.
C21_CategoryWithTextChannel ==
  \A cat \in StructuredCategories, name \in StructuredNames,
      perms \in StructuredPermissions :
    (parser.status = "returned" /\ parser.raw = StructuredText(cat, name,
        perms)) =>
      LET t == parser.template
      IN  /\ Len(t.categories) = 1
          /\ t.categories[1].name = cat
          /\ Len(t.categories[1].channels) = 1
          /\ t.categories[1].channels[1].name = name
          /\ t.categories[1].channels[1].type = "text"
          /\ t.categories[1].channels[1].overwrites =
               Some(<<[roleRefId |-> Sentinel, allow |-> ListedBits(perms),
                       deny |-> 0]>>)

\* C22: in every template the parser returns, a channel has no overwrites or
\* exactly one, for the base role with deny 0; no overwrite names a role of
\* the template, also when the text has role lines.
C22_BaseRoleOverwritesOnly ==
  \A n \in 1..Len(parser.returned) :
    LET t == parser.returned[n]
    IN  \A c \in 1..Len(t.categories) :
          \A j \in 1..Len(t.categories[c].channels) :
            LET overwrites == t.categories[c].channels[j].overwrites
            IN  \/ overwrites = Undefined
                \/ /\ Len(overwrites) = 1 /\ Len(overwrites[1]) = 1
                   /\ overwrites[1][1].roleRefId = Sentinel
                   /\ overwrites[1][1].deny = 0
                   /\ \A r \in 1..Len(t.roles) :
                        overwrites[1][1].roleRefId # t.roles[r].refId

\* a text with a role line and a channel line with a permission list came
\* back with the role and with the channel's one overwrite
C22_Witness ==
  /\ parser.status = "returned"
  /\ Len(parser.template.roles) > 0
  /\ \E c \in 1..Len(parser.template.categories) :
       \E j \in 1..Len(parser.template.categories[c].channels) :
         LET overwrites == parser.template.categories[c].channels[j].overwrites
         IN  /\ overwrites # Undefined
             /\ overwrites[1][1].allow > 0

(***************************************************************************)
(* Claims about permissionsToBitfield, under BitsSpec.                     *)
(***************************************************************************)
\* the bits of the names of a list that are cases of the switch
RecognizedBits(perms) == {WordBit(perms[k]) : k \in 1..Len(perms)} \ {-1}

\* C23: permissionsToBitfield depends only on the set of recognized names of
\* its input: a list, any rearrangement of it and the list written twice
\* give the same bitfield, the OR of the bits of the recognized names; a name
\* that is not recognized adds no bit and raises no error.
C23_OrderAndDuplicatesIgnored ==
  bits.pc = "converted" =>
    /\ bits.bitfield = permissionsToBitfield(bits.given)
    /\ bits.doubled = bits.bitfield
    /\ bits.bitfield = BitfieldSum(RecognizedBits(bits.given))
    /\ \A k \in 1..Len(mapped(bits.given)) :
         mapped(bits.given)[k] \in DOMAIN FlagBit

\* a list of three names, one not recognized and two of the same flag, was
\* converted in another order than it was given
C23_Witness ==
  /\ bits.pc = "converted"
  /\ Len(bits.given) = 3 /\ bits.arranged # bits.given
  /\ \E k \in 1..3 : WordBit(bits.given[k]) = -1
  /\ \E j, k \in 1..3 :
       /\ j # k /\ bits.given[j] # bits.given[k]
       /\ WordBit(bits.given[j]) = WordBit(bits.given[k])
       /\ WordBit(bits.given[j]) # -1
  /\ bits.bitfield > 0

(***************************************************************************)
(* Claims about the extractor, under ExtractSpec.                          *)
(***************************************************************************)
\* the guild the call reads, the categories among the channels it fetched,
\* and the places of the template where a channel of a given name stands
Source == guild[extract.guild]
FetchedCategories ==
  SelectSeq(extract.channels, LAMBDA ch : ch.type = "GuildCategory")
FetchedOthers ==
  {k \in 1..Len(extract.channels) : extract.channels[k].type # "GuildCategory"}
PlacesOf(name) ==
  {<<c, j>> \in (1..Len(extract.template.categories)) \X (1..Len(extract.channels)) :
     /\ j <= Len(extract.template.categories[c].channels)
     /\ extract.template.categories[c].channels[j].name = name}

\* C24: the template has exactly one RoleSpec for each live role of the
\* guild, its refId the live id of the role, and isEveryone is set on the
\* RoleSpec of the base role and on no other.
C24_OneRoleSpecPerRole ==
  extract.pc = "returned" =>
    LET roles == extract.template.roles
    IN  /\ Len(roles) = Len(Source.roles)
        /\ \A i \in 1..Len(Source.roles) :
             Cardinality({k \in 1..Len(roles) : roles[k].refId = Source.roles[i].id}) = 1
        /\ \A k \in 1..Len(roles) :
             roles[k].isEveryone <=> roles[k].refId = EveryoneId(extract.guild)
        /\ Cardinality({k \in 1..Len(roles) : roles[k].isEveryone}) = 1

\* the call returned the roles of a guild that got one more role while the
\* call was waiting for its channels
C24_Witness ==
  /\ extract.pc = "returned"
  /\ Len(extract.template.roles) = MaxRoles + 2
  /\ \E k \in 1..Len(extract.template.roles) :
       extract.template.roles[k].refId = <<extract.guild, 21>>

\* C25: the template has one CategorySpec for each category of the fetched
\* channels, in order, also for one without channels; every other fetched
\* channel whose parent is one of these categories stands once, under the
\* CategorySpec of that category; a channel without parent, or with a parent
\* that is no fetched category, stands nowhere.
C25_ChannelsUnderParent ==
  extract.pc = "returned" =>
    LET categories == extract.template.categories
    IN  /\ Len(categories) = Len(FetchedCategories)
        /\ \A c \in 1..Len(categories) :
             categories[c].name = FetchedCategories[c].name
        /\ \A k \in FetchedOthers :
             LET ch == extract.channels[k]
                 parents == {c \in 1..Len(FetchedCategories) :
                               FetchedCategories[c].id = ch.parent}
             IN  /\ parents = {} => PlacesOf(ch.name) = {}
                 /\ parents # {} =>
                      /\ Cardinality(PlacesOf(ch.name)) = 1
                      /\ \A place \in PlacesOf(ch.name) : place[1] \in parents
        /\ \A c \in 1..Len(categories) :
             \A j \in 1..Len(categories[c].channels) :
               \E k \in FetchedOthers :
                 extract.channels[k].name = categories[c].channels[j].name

\* the call returned the template of a guild with a category with two
\* channels, a category without channels and a channel without parent
C25_Witness ==
  /\ extract.pc = "returned"
  /\ Len(extract.channels) = 5
  /\ Len(extract.template.categories) = 2
  /\ Len(extract.template.categories[1].channels) = 2
  /\ Len(extract.template.categories[2].channels) = 0

\* C26: a copied channel has one triple for each overwrite of a role on the
\* live channel, with the id of the role and its allow and deny, and none for
\* an overwrite of a member.
C26_RoleOverwritesOnly ==
  extract.pc = "returned" =>
    \A k \in FetchedOthers :
      \A place \in PlacesOf(extract.channels[k].name) :
        LET live == extract.channels[k].overwrites
            copied == extract.template.categories[place[1]].channels[place[2]].overwrites
            ofRoles == {o \in 1..Len(live) : live[o].type = 0}
        IN  /\ ArrayIsArray(copied)
            /\ Len(copied[1]) = Cardinality(ofRoles)
            /\ \A o \in ofRoles :
                 \E n \in 1..Len(copied[1]) :
                   copied[1][n] = [roleRefId |-> live[o].id,
                                   allow |-> live[o].allow, deny |-> live[o].deny]
            /\ \A o \in (1..Len(live)) \ ofRoles :
                 \A n \in 1..Len(copied[1]) : copied[1][n].roleRefId # live[o].id

\* the call copied a channel with two overwrites of roles and one of a
\* member, and a channel with an overwrite of a member only
C26_Witness ==
  /\ extract.pc = "returned"
  /\ \E k \in FetchedOthers :
       /\ Len(extract.channels[k].overwrites) = 3
       /\ \E place \in PlacesOf(extract.channels[k].name) :
            Len(extract.template.categories[place[1]].channels[place[2]].overwrites[1]) = 2
  /\ \E k \in FetchedOthers :
       /\ Len(extract.channels[k].overwrites) = 1
       /\ \E place \in PlacesOf(extract.channels[k].name) :
            extract.template.categories[place[1]].channels[place[2]].overwrites[1] = <<>>

(***************************************************************************)
(* Claims about the image analysis, under OcrSpec.                         *)
(***************************************************************************)
\* C27: whichever of the three steps fails and whatever text the OCR reads,
\* analyzeImageStub returns a template whose categories are a sequence of
\* at least one category; it is the fixed fallback template after a failure
\* and when the text has no line that opens a category.
C27_NeverEmptyTemplate ==
  /\ ocr.pc \in {"idle", "fetch", "preprocess", "ocr", "catch", "returned"}
  /\ ocr.pc = "returned" =>
       /\ CategoriesIsSequence(ocr.template)
       /\ Len(ocr.template.categories) >= 1
       /\ ocr.failed # "none" => ocr.template = fallbackTemplate
       /\ (ocr.failed = "none"
           /\ \A k \in 1..Len(cleanedLines(ocr.text)) :
                /\ ~looksLikeCategory(cleanedLines(ocr.text)[k])
                /\ ~ocrLooksLikeChannel(cleanedLines(ocr.text)[k])) =>
            ocr.template.categories = fallbackTemplate.categories

\* the OCR read a text of lines none of which is a category or a channel, and
\* the fallback template came back
C27_Witness ==
  /\ ocr.pc = "returned" /\ ocr.failed = "none"
  /\ Len(cleanedLines(ocr.text)) > 0
  /\ ocr.template.categories = fallbackTemplate.categories

\* the preprocessing failed and the fallback template came back
C27_WitnessFailure ==
  /\ ocr.pc = "returned" /\ ocr.failed = "preprocessImage"
  /\ ocr.template = fallbackTemplate

(***************************************************************************)
(* Claims about the bulk delete, under DeleteSpec.                         *)
(***************************************************************************)
\* the calls of ch.delete, those the platform fulfilled, and whether the
\* completion reply was sent
Deletes == 1..Len(calls[1])
Fulfilled == {k \in Deletes : calls[1][k].status = "ok"}
CompletionSent ==
  \E n \in 1..Len(deletion.replies) : deletion.replies[n][1] = "editReply"

\* C28: the deletions are all dispatched before any of them is awaited, one
\* for each deletable channel; whichever of them fail and in whatever order
\* they settle, each of the others is carried out, the completion reply is
\* sent only when every deletion has settled, and the count it reports is
\* the number of deletions that succeeded.
C28_AllSettleJoin ==
  /\ deletion.pc \in {"join", "done"} /\ deletion.inGuild =>
       /\ Len(calls[1]) =
            Cardinality({n \in 1..Len(deletion.channels) :
                           deletion.channels[n] \notin deletion.locked})
       /\ \A n \in 1..Len(deletion.channels) :
            deletion.channels[n] \notin deletion.locked =>
              Cardinality({k \in Deletes :
                             calls[1][k].payload.channel = deletion.channels[n]}) = 1
       /\ settled[1] = <<>> => pending[1] = Deletes
  /\ CompletionSent =>
       /\ pending[1] = {}
       /\ \A k \in Deletes : calls[1][k].status \in {"ok", "err"}
       /\ \A k \in Deletes :
            k \in Fulfilled <=> ~HasChannel("G1", calls[1][k].payload.channel)
       /\ deletion.replies[Len(deletion.replies)][3] =
            DecimalString(Cardinality(Fulfilled))

\* of three deletions the first to settle failed, the two others were carried
\* out after it, and the completion reply reports two
C28_Witness ==
  /\ CompletionSent
  /\ Len(calls[1]) = 3
  /\ calls[1][settled[1][1]].status = "err"
  /\ Cardinality(Fulfilled) = 2
  /\ deletion.channelsDeleted = 2

(***************************************************************************)
(* Claims about the change logger, under LoggerSpec.                       *)
(***************************************************************************)
\* the batches that hold event number n, and whether the queue holds it
BatchesOf(n) ==
  {f \in 1..Len(logger.flushes) :
     \E k \in 1..Len(logger.flushes[f].events) : logger.flushes[f].events[k].n = n}
Queued(n) == \E k \in 1..Len(logger.queue) : logger.queue[k].n = n

\* C30: at most one timeout is pending at a time; while the queue is not
\* empty a timeout is pending, the one `timer` holds; and every event is in
\* the queue or in the batch of one flush, never in two batches and never
\* twice in one.
C30_OneTimerOneBatch ==
  /\ Cardinality(logger.timers) <= 1
  /\ logger.queue # <<>> => (logger.timer # 0 /\ logger.timer \in logger.timers)
  /\ \A n \in 1..logger.seen :
       /\ Cardinality(BatchesOf(n)) + (IF Queued(n) THEN 1 ELSE 0) <= 1
       /\ Cardinality({k \in 1..Len(logger.queue) : logger.queue[k].n = n}) <= 1
       /\ \A f \in BatchesOf(n) :
            Cardinality({k \in 1..Len(logger.flushes[f].events) :
                           logger.flushes[f].events[k].n = n}) = 1

\* a file event came while a flush was waiting for the channel, a second
\* flush took it, and both wait with their own batch
C30_Witness ==
  /\ Len(logger.flushes) = 2
  /\ logger.flushes[1].pc = "fetch" /\ logger.flushes[2].pc = "fetch"
  /\ logger.queue # <<>> /\ logger.timer \in logger.timers

(***************************************************************************)
(* Claims about provisioning and extracting again, under RoundSpec.        *)
(***************************************************************************)
\* the template of the run on G1 and what fromGuild reads from G1
Provisioned == run[1].template
Extracted == fromGuild("G1", guild["G1"])
\* name, colour and permissions of the roles of a template that are not the
\* base role: what of a role the claim compares
RoleTraits(t) ==
  LET others == SelectSeq(t.roles, LAMBDA role : ~role.isEveryone)
  IN  [i \in 1..Len(others) |->
         <<others[i].name, others[i].color, others[i].permissions>>]
Count(seq, x) == Cardinality({i \in 1..Len(seq) : seq[i] = x})
SameRoles(t, u) ==
  /\ Len(RoleTraits(t)) = Len(RoleTraits(u))
  /\ \A i \in 1..Len(RoleTraits(t)) :
       Count(RoleTraits(t), RoleTraits(t)[i]) = Count(RoleTraits(u), RoleTraits(t)[i])
RoundTripHolds ==
  /\ Skeleton(Extracted) = Skeleton(Provisioned)
  /\ SameRoles(Extracted, Provisioned)

KeptName(name) ==
  /\ name # <<>> /\ Len(name) <= NameLimit
  /\ ~IsSpace(name[1]) /\ ~IsSpace(name[Len(name)])
KeptNames(t) ==
  \A c \in 1..Len(t.categories) :
    /\ KeptName(t.categories[c].name)
    /\ \A j \in 1..Len(t.categories[c].channels) :
         /\ KeptName(t.categories[c].channels[j].name)
         /\ t.categories[c].channels[j].type \in {"text", "voice"}

C14_WitnessLimit ==
  /\ run[1].pc = "done" /\ KeptNames(Provisioned)
  /\ Len(Provisioned.categories) = 1
  /\ Len(Provisioned.categories[1].name) = NameLimit

(***************************************************************************)
(* Claims about the modal handler, under ModalSpec.                        *)
(***************************************************************************)
ValidatorFailed == validation.result \notin {"idle", "called", Returned}
ErrorReported ==
  \E i \in 1..Len(modal.replies) :
    modal.replies[i][Len(modal.replies[i])] = validation.result

\* C11 (as claimed): in each of the four flows a creation call is issued only
\* after the validator has accepted the template in hand, and when the
\* validator fails no creation call is issued and the user is told the error.
C11_ValidatedBeforeCreation ==
  /\ (\E k \in 1..Len(calls[1]) : calls[1][k].op \in CreationOps) =>
       /\ validation.result = Returned
       /\ validation.template = modal.template
  /\ ValidatorFailed =>
       /\ calls[1] = <<>>
       /\ modal.pc = "done" /\ ErrorReported

====
